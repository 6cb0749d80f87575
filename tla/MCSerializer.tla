---------------------------- MODULE MCSerializer ----------------------------
(***************************************************************************)
(* Instances of Serializer for TLC.  A page has eight words and the        *)
(* children are small: messages of one or two pages, as few as one word    *)
(* below a page's end.                                                     *)
(***************************************************************************)
EXTENDS Serializer

CONSTANTS b1, b2, b3

MCBadges == {b1, b2, b3}
MCContents == {"x", "y"}
MCRegisters == {"sp", "ip", "lr"}
MCTransferred == {"sp", "ip"}

Ram(b, sz, content) == [badge |-> b, size |-> sz, content |-> content]
Region(b, addr) == [badge |-> b, size |-> 76 - addr \div 10, offset |-> addr \div 2, rel_addr |-> addr]
Map(b, rs) == [badge |-> b, size |-> 71 + Len(rs), regions |-> rs]
Thread(b, addr) ==
  [badge |-> b, utcb |-> addr, regs |-> [r \in MCRegisters |-> IF r = "sp" THEN "x" ELSE "y"]]

\* A child with the given optional sessions, threads, regions and dataspaces.
\* Badge b1 has two slots, the one that is found beyond the range; b3 has none.
MCChild(open, threads, regions, rams) ==
  [slots |-> <<UNUSED, b2, INVALID_ID, UNUSED, UNUSED, b1, b1>>,
   sessions |-> [s \in {"pd", "cpu"} \cup open |-> b1],
   lists |-> [k \in Lists |-> IF k = "signal_contexts" THEN <<b3, b1>> ELSE <<>>],
   threads |-> threads,
   areas |-> [a \in Areas |-> Map(b2, IF a = "address_space" THEN regions ELSE <<>>)],
   maps |-> IF "rm" \in open THEN <<Map(b3, regions), Map(b1, <<Region(b2, 3)>>)>> ELSE <<>>,
   rams |-> rams]

MCChilds ==
  {MCChild(open, threads, regions, rams) :
     open \in {{"rm", "log"}, {"timer", "rom", "log"}},
     threads \in {<<Thread(b1, 1)>>, <<Thread(b2, 2), Thread(b3, 80)>>,
                 <<Thread(b3, 3), Thread(b1, 72), Thread(b2, 1)>>},
     regions \in {<<>>, <<Region(b3, 100), Region(b2, 8)>>},
     rams \in {<<>>, <<Ram(b1, 3, "x")>>,
               <<Ram(b1, 8, "x"), Ram(b2, 9, "y")>>,
               <<Ram(b1, 1, "y"), Ram(b2, 17, "x"), Ram(b3, 8, "y")>>}}

FirstChild == MCChild({"rm", "log"}, <<Thread(b2, 2), Thread(b3, 80)>>,
                      <<Region(b3, 100), Region(b2, 8)>>, <<Ram(b1, 3, "x")>>)

MCChildLists == {<<>>} \cup {<<c>> : c \in MCChilds} \cup {<<FirstChild, c>> : c \in MCChilds}
=============================================================================
