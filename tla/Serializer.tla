----------------------------- MODULE Serializer -----------------------------
(***************************************************************************)
(* Rtcr::Serializer (src/rtcr_serializer/serializer.cc): serialize() turns *)
(* the snapshot of all children into one compressed dataspace, parse()     *)
(* turns such a dataspace back into a list of Child_info objects.          *)
(*                                                                         *)
(* serialize() builds a protobuf message and, beside it, a list of         *)
(* attachments: the cold dataspaces, the binaries and, at the head, the    *)
(* dataspace of the message itself.  They are laid out one after the other *)
(* in a region map, which is compressed as a whole; the message holds the  *)
(* offset of each dataspace.  The dataspace of the message is allocated    *)
(* before the offsets are known, and an offset of zero takes no space.     *)
(*                                                                         *)
(* Sizes count words of the header (4 bytes).  A record's badge stands for *)
(* the fields that are copied as they are; the capability slot, the        *)
(* numbers that the message holds in 32 bits - addresses, and sizes and    *)
(* offsets of regions - and the registers are fields of their own.         *)
(*                                                                         *)
(* Every call of serialize() that takes memory may throw.  compress() is   *)
(* called in a try block, what comes before it is not.                     *)
(***************************************************************************)
EXTENDS Naturals, Sequences, FiniteSets, FiniteSetsExt, SequencesExt

CONSTANTS
  Badges,        \* badges of capabilities
  Contents,      \* contents of a RAM dataspace or a register
  Registers,     \* the registers of a Thread_state
  Transferred,   \* those that the build's cpu_thread.cc names
  ChildLists,    \* the lists of children that are serialized
  PageSize,      \* _PAGE_SIZE
  BinarySize,    \* size of a child's ROM module
  RecordSize,    \* size of a record in the message
  OffsetSize,    \* size of an offset in the message, unless it is zero
  Word,          \* 2^32: the header and the message hold 32 bit numbers
  UNUSED,        \* what a slot that holds no capability contains
  INVALID_ID,
  SlotSize,      \* 2^12: a capability is named by its slot, shifted by 12 bits
  KcapRange      \* 2^16, the range of Normal_info::i_kcap

Optional == {"timer", "log", "rm", "rom"}
Lists == {"signal_sources", "signal_contexts", "native_caps"}
Areas == {"address_space", "linker_area", "stack_area"}

\* The info objects and, as a Child_info, what hangs together with it: `slots` is
\* the child's array of capabilities, `maps` the region maps of the session "rm".
ThreadInfos == [badge : Badges, utcb : Nat, regs : [Registers -> Contents]]
Regions == [badge : Badges, size : Nat, offset : Nat, rel_addr : Nat]
RegionMaps == [badge : Badges, size : Nat, regions : Seq(Regions)]
Dataspaces == [badge : Badges, size : Nat \ {0}, content : Contents]
ChildInfos ==
  {c \in [slots : Seq(Badges \cup {UNUSED, INVALID_ID}),
          sessions : UNION {[{"pd", "cpu"} \cup open -> Badges] : open \in SUBSET Optional},
          lists : [Lists -> Seq(Badges)],
          threads : Seq(ThreadInfos),
          areas : [Areas -> RegionMaps],
          maps : Seq(RegionMaps),
          rams : Seq(Dataspaces)] : "rm" \in DOMAIN c.sessions \/ c.maps = <<>>}

ASSUME SerializerAssumption ==
  /\ PageSize \in Nat \ {0, 1}
  /\ BinarySize \in Nat \ {0} /\ BinarySize % PageSize = 0
  /\ RecordSize \in Nat \ {0} /\ OffsetSize \in Nat \ {0}
  /\ Word \in Nat \ {0} /\ SlotSize \in Nat \ {0} /\ KcapRange \in Nat \ {0}
  /\ {UNUSED, INVALID_ID} \cap Badges = {} /\ Transferred \subseteq Registers
  /\ \A list \in ChildLists : list \in Seq(ChildInfos)

VARIABLES
  childs,          \* the list given to serialize()
  include_binary,  \* its parameter
  phase,           \* where serialize() or parse() is
  child_list,      \* the message: a sequence of children
  attachments,     \* the list of attachments, head first
  pb_ds_size,      \* size of the message's dataspace
  pb_size,         \* size of the message
  memory,          \* what the region map holds: offsets to contents
  total_size,      \* the size of what is compressed, as the header has it
  held,            \* the dataspaces the serializer has allocated
  parsed           \* the list that parse() builds, head first

messageVars == <<child_list, attachments, pb_ds_size, pb_size>>
serializerVars == <<childs, include_binary, phase, messageVars, memory, total_size, held, parsed>>

HeaderSize == 1                    \* sizeof(uint32_t)
MessageKey == [child |-> 0, ram |-> 0]   \* the attachment of the message

-----------------------------------------------------------------------------
(* Capability_mapping *)

\* An entry for each slot in use, in the order of the array; the first slot has
\* number 0.
capability_mapping(slots) ==
  [i \in {n \in DOMAIN slots : slots[n] \notin {UNUSED, INVALID_ID}} |->
     [badge |-> slots[i], kcap |-> (i - 1) * SlotSize]]

\* The slot of the first entry with the badge, 0 if there is none.
find_kcap_by_badge(cm, badge) ==
  LET found == {i \in DOMAIN cm : cm[i].badge = badge}
  IN  IF found = {} THEN 0 ELSE cm[Min(found)].kcap

-----------------------------------------------------------------------------
(* Operators of serialize() *)

page_aligned_size(n) ==
  LET whole == (n \div PageSize) * PageSize
  IN  whole + (IF n - whole # 0 THEN PageSize ELSE 0)

normal_info(cm, badge) == [kcap |-> find_kcap_by_badge(cm, badge), badge |-> badge]

\* One record of the message for each record of a list, in the order of the list.
add_records(cm, list) == [i \in DOMAIN list |-> normal_info(cm, list[i])]

add_attached_region(cm, region) ==
  [info |-> normal_info(cm, region.badge), size |-> region.size % Word,
   offset |-> region.offset % Word, rel_addr |-> region.rel_addr % Word]

add_region_map(cm, map) ==
  [info |-> normal_info(cm, map.badge), size |-> map.size % Word,
   regions |-> [i \in DOMAIN map.regions |-> add_attached_region(cm, map.regions[i])]]

\* On arm_64 r0 to r29, sp and ip are copied, the link register r30 is not.
add_cpu_thread(cm, thread) ==
  [info |-> normal_info(cm, thread.badge), utcb |-> thread.utcb % Word,
   regs |-> [r \in Transferred |-> thread.regs[r]]]

\* The offset of the attachment is not known yet.
add_ram_dataspace(cm, ds) ==
  [info |-> normal_info(cm, ds.badge), size |-> ds.size, offset |-> 0]

session_info(cm, c) == [s \in DOMAIN c.sessions |-> normal_info(cm, c.sessions[s])]

\* The sessions; the lists and areas of the PD and the CPU session; the region
\* maps of the RM session, if it is open.
child_message(c) ==
  LET cm == capability_mapping(c.slots)
  IN  [sessions |-> session_info(cm, c),
       lists |-> [k \in Lists |-> add_records(cm, c.lists[k])],
       threads |-> [i \in DOMAIN c.threads |-> add_cpu_thread(cm, c.threads[i])],
       areas |-> [a \in Areas |-> add_region_map(cm, c.areas[a])],
       maps |-> IF "rm" \in DOMAIN c.sessions
                THEN [i \in DOMAIN c.maps |-> add_region_map(cm, c.maps[i])] ELSE <<>>,
       rams |-> [j \in DOMAIN c.rams |-> add_ram_dataspace(cm, c.rams[j])],
       binary |-> 0]

Attachment(i, j, sz, content) == [key |-> [child |-> i, ram |-> j], size |-> sz, content |-> content]

\* The dataspaces of child i in the order in which they are inserted.
ram_attachments(i, c) ==
  [j \in DOMAIN c.rams |->
     Attachment(i, j, page_aligned_size(c.rams[j].size), c.rams[j].content)]

binary_attachment(i) ==
  IF include_binary THEN <<Attachment(i, 0, BinarySize, "binary")>> ELSE <<>>

\* Genode::List::insert() of the elements of s, one after the other.
Inserted(s, list) == FoldLeft(LAMBDA l, x : <<x>> \o l, list, s)

SumOf(f(_), s) == SumFunction([i \in DOMAIN s |-> f(s[i])])

\* size() of a list of attachments.
size(as) == SumOf(LAMBDA a : a.size, as)

OffsetBytes(offset) == IF offset = 0 THEN 0 ELSE OffsetSize
Records(m) == 1 + Len(m.regions)
ChildBytes(c) ==
  RecordSize * (  Cardinality(DOMAIN c.sessions) + Len(c.threads) + Len(c.rams)
                + SumOf(Len, c.lists) + SumOf(Records, c.areas) + SumOf(Records, c.maps))
  + SumOf(LAMBDA r : OffsetBytes(r.offset), c.rams) + OffsetBytes(c.binary)
ByteSize(message) == SumOf(ChildBytes, message)

\* Where the k-th attachment is attached.
OffsetOf(as, k) == size(SubSeq(as, 1, k - 1))
OffsetOfKey(as, i, j) ==
  OffsetOf(as, SelectInSeq(as, LAMBDA a : a.key = [child |-> i, ram |-> j])) % Word

-----------------------------------------------------------------------------
(* serialize() *)

Init ==
  /\ childs \in ChildLists
  /\ include_binary \in BOOLEAN
  /\ phase = "convert"
  /\ child_list = <<>>
  /\ attachments = <<>>
  /\ pb_ds_size = 0
  /\ pb_size = 0
  /\ memory = <<>>
  /\ total_size = 0
  /\ held = {}
  /\ parsed = <<>>

\* One child: its message, its cold dataspaces and its binary.
add_child_info ==
  /\ phase = "convert"
  /\ Len(child_list) < Len(childs)
  /\ LET i == Len(child_list) + 1
     IN  /\ child_list' = Append(child_list, child_message(childs[i]))
         /\ attachments' =
              Inserted(ram_attachments(i, childs[i]) \o binary_attachment(i), attachments)
  /\ UNCHANGED <<childs, include_binary, phase, pb_ds_size, pb_size, memory, total_size,
                 held, parsed>>

\* Mutant of create_dataspace: the message is attached last.
MessageAtTail ==
  /\ phase = "convert"
  /\ Len(child_list) = Len(childs)
  /\ LET sz == page_aligned_size(ByteSize(child_list) + HeaderSize)
     IN  /\ pb_ds_size' = sz
         /\ attachments' = Append(attachments, Attachment(0, 0, sz, "zeros"))
  /\ held' = held \cup {"message"}
  /\ phase' = "attach"
  /\ UNCHANGED <<childs, include_binary, child_list, pb_size, memory, total_size, parsed>>

\* The dataspace of the message, by the size the message has now.
create_dataspace ==
  /\ phase = "convert"
  /\ Len(child_list) = Len(childs)
  /\ LET sz == page_aligned_size(ByteSize(child_list) + HeaderSize)
     IN  /\ pb_ds_size' = sz
         /\ attachments' = Inserted(<<Attachment(0, 0, sz, "zeros")>>, attachments)
  /\ held' = held \cup {"message"}
  /\ phase' = "attach"
  /\ UNCHANGED <<childs, include_binary, child_list, pb_size, memory, total_size, parsed>>

\* The region map when the attachments have been attached.
Placed(as) ==
  [o \in {OffsetOf(as, k) : k \in DOMAIN as} |->
     as[CHOOSE n \in DOMAIN as : OffsetOf(as, n) = o].content]

\* attach(): each dataspace gets its place, and its message the offset.
attach ==
  /\ phase = "attach"
  /\ memory' = Placed(attachments)
  /\ child_list' =
       [i \in DOMAIN child_list |->
          [child_list[i] EXCEPT
             !.rams = [j \in DOMAIN @ |->
                         [@[j] EXCEPT !.offset = OffsetOfKey(attachments, i, j)]],
             !.binary = IF include_binary THEN OffsetOfKey(attachments, i, 0) ELSE 0]]
  /\ phase' = "fill"
  /\ UNCHANGED <<childs, include_binary, attachments, pb_ds_size, pb_size, total_size,
                 held, parsed>>

\* The length of the message and the message itself, in one dataspace.
\* SerializeToArray() is told that the dataspace has its full size, though the
\* first word is taken.
fill ==
  /\ phase = "fill"
  /\ pb_size' = ByteSize(child_list)
  /\ \/ /\ pb_size' + HeaderSize <= pb_ds_size
        /\ memory' = [memory EXCEPT ![0] = "message"]
        /\ phase' = "compress"
     \/ /\ pb_size' > pb_ds_size          \* refused; the code does not look
        /\ memory' = memory
        /\ phase' = "compress"
     \/ /\ pb_size' + HeaderSize > pb_ds_size /\ pb_size' <= pb_ds_size
        /\ memory' = memory               \* written beyond the end
        /\ phase' = "fault"
  /\ UNCHANGED <<childs, include_binary, child_list, attachments, pb_ds_size, total_size,
                 held, parsed>>

\* An exception before the try block: what was allocated and attached stays.
serialize_throws ==
  /\ \/ phase \in {"convert", "fill"} /\ UNCHANGED <<memory, held>>
     \/ /\ phase = "convert" /\ Len(child_list) = Len(childs)
        /\ held' = held \cup {"message"} /\ memory' = memory
     \/ /\ phase = "attach"
        /\ \E n \in DOMAIN attachments : memory' = Placed(SubSeq(attachments, 1, n - 1))
        /\ held' = held
  /\ phase' = "abandoned"
  /\ UNCHANGED <<childs, include_binary, messageVars, total_size, parsed>>

\* compress(): its dataspace is allocated, ...
compress_allocates ==
  /\ phase = "compress"
  /\ held' = held \cup {"compressed"}
  /\ phase' = "map"
  /\ UNCHANGED <<childs, include_binary, messageVars, memory, total_size, parsed>>

\* ... it and the region map are attached, ...
compress_attaches ==
  /\ phase = "map"
  /\ phase' = "deflate"
  /\ UNCHANGED <<childs, include_binary, messageVars, memory, total_size, held, parsed>>

\* ... and compress2() fills it.
compress_returns ==
  /\ phase = "deflate"
  /\ total_size' = size(attachments) % Word
  /\ phase' = "serialized"
  /\ UNCHANGED <<childs, include_binary, messageVars, memory, held, parsed>>

\* serialize() cleans up what it has taken itself, and throws.
CleanUp ==
  /\ attachments' = <<>>
  /\ memory' = <<>>
  /\ phase' = "refused"
  /\ UNCHANGED <<childs, include_binary, child_list, pb_ds_size, pb_size, total_size, parsed>>

\* Mutant of compress_fails: compress() never frees its dataspace.
FailUnfreed ==
  /\ phase \in {"compress", "map", "deflate"}
  /\ held' = held \ {"message"}
  /\ CleanUp

\* The allocation fails, or one of the two attachments, or compress2(): then only is
\* the dataspace freed in compress() itself.
compress_fails ==
  /\ phase \in {"compress", "map", "deflate"}
  /\ held' = held \ (IF phase = "deflate" THEN {"message", "compressed"} ELSE {"message"})
  /\ CleanUp

compress == compress_allocates \/ compress_attaches \/ compress_returns \/ compress_fails

serialize ==
  add_child_info \/ create_dataspace \/ attach \/ fill \/ compress \/ serialize_throws

-----------------------------------------------------------------------------
(* parse() *)

\* What ParseFromArray() finds.
Message == IF memory[0] = "message" THEN child_list ELSE <<>>

\* The slot is stored into 16 bits.
parse_normal_info(r) == [r EXCEPT !.kcap = @ % KcapRange]

\* Mutant of parse_list: the message is read from its beginning.
ParseForward(list) == Inserted(list, <<>>)

\* From the last record of the message to the first, each inserted at the head.
parse_list(list) == Inserted(Reverse(list), <<>>)

parse_records(rs) == parse_list([i \in DOMAIN rs |-> parse_normal_info(rs[i])])

parse_attached_region(r) == [r EXCEPT !.info = parse_normal_info(@)]

parse_region_map(m) ==
  [info |-> parse_normal_info(m.info), size |-> m.size,
   regions |-> parse_list([i \in DOMAIN m.regions |-> parse_attached_region(m.regions[i])])]

\* The registers that the message does not name are not set.
parse_cpu_thread(t) == [info |-> parse_normal_info(t.info), utcb |-> t.utcb, regs |-> t.regs]

parse_sessions(m) == [s \in DOMAIN m.sessions |-> parse_normal_info(m.sessions[s])]

\* A new dataspace with what was attached at the offset.
parse_ram_dataspace(r) ==
  [info |-> parse_normal_info(r.info), size |-> r.size,
   content |-> IF r.offset \in DOMAIN memory THEN memory[r.offset] ELSE "other"]

\* `wild` are the pointers of the new Child_info that nobody sets and that happen
\* not to be null.
parse_child_info(m, wild) ==
  [sessions |-> parse_sessions(m),
   lists |-> [k \in Lists |-> parse_records(m.lists[k])],
   threads |-> parse_list([i \in DOMAIN m.threads |-> parse_cpu_thread(m.threads[i])]),
   areas |-> [a \in Areas |-> parse_region_map(m.areas[a])],
   maps |-> parse_list([i \in DOMAIN m.maps |-> parse_region_map(m.maps[i])]),
   rams |-> parse_list([j \in DOMAIN m.rams |-> parse_ram_dataspace(m.rams[j])]),
   wild |-> wild]

Unset(m) == {"capability_mapping"} \cup (Optional \ DOMAIN m.sessions)

\* Mutant of uncompress: the return value is not looked at.
UncompressUnchecked ==
  /\ phase = "serialized"
  /\ held' = held \cup {"uncompressed"}
  /\ phase' = "parse"
  /\ UNCHANGED <<childs, include_binary, messageVars, memory, total_size, parsed>>

\* The target must be as large as what was compressed.
uncompress ==
  /\ phase = "serialized"
  /\ total_size >= size(attachments)
  /\ held' = held \cup {"uncompressed"}
  /\ phase' = "parse"
  /\ UNCHANGED <<childs, include_binary, messageVars, memory, total_size, parsed>>

\* uncompress() fails, for want of space or of memory; parse() throws.
uncompress_fails ==
  /\ phase = "serialized"
  /\ held' = held \cup {"uncompressed"}
  /\ phase' = "corrupt"
  /\ UNCHANGED <<childs, include_binary, messageVars, memory, total_size, parsed>>

parse_child ==
  /\ phase = "parse"
  /\ Len(parsed) < Len(Message)
  /\ LET m == Message[Len(parsed) + 1]
     IN  \E wild \in SUBSET Unset(m) :
           parsed' = Inserted(<<parse_child_info(m, wild)>>, parsed)
  /\ UNCHANGED <<childs, include_binary, phase, messageVars, memory, total_size, held>>

parse_returns ==
  /\ phase = "parse"
  /\ Len(parsed) = Len(Message)
  /\ held' = held \ {"uncompressed"}
  /\ phase' = "parsed"
  /\ UNCHANGED <<childs, include_binary, messageVars, memory, total_size, parsed>>

parse == uncompress \/ uncompress_fails \/ parse_child \/ parse_returns

Next == serialize \/ parse

Spec == Init /\ [][Next]_serializerVars

-----------------------------------------------------------------------------
(* Properties *)

\* The layout of the region map: the message is at its beginning, where parse()
\* looks for it; the dataspaces begin on a page and do not overlap; and, as long as
\* the offsets are less than 2^32, each dataspace and each binary is where the message
\* says it is.
LayoutIsSound ==
  phase \in {"fill", "compress", "map", "deflate", "serialized"} =>
    /\ attachments[1].key = MessageKey
    /\ \A o \in DOMAIN memory : o % PageSize = 0
    /\ Cardinality(DOMAIN memory) = Len(attachments)
    /\ size(attachments) < Word =>
         \A i \in DOMAIN childs :
           /\ \A j \in DOMAIN childs[i].rams :
                memory[child_list[i].rams[j].offset] = childs[i].rams[j].content
           /\ include_binary => memory[child_list[i].binary] = "binary"

\* A record that was parsed is the record of the child: its badge, and the slot the
\* capability is in, as far as 16 bits hold it, or none.
IsRecord(r, c, badge) ==
  LET kcaps == {(i - 1) * SlotSize : i \in {n \in DOMAIN c.slots : c.slots[n] = badge}}
  IN  /\ r.badge = badge
      /\ r.kcap \in {k % KcapRange : k \in kcaps} \/ (kcaps = {} /\ r.kcap = 0)

AreRecords(rs, c, badges) ==
  Len(rs) = Len(badges) /\ \A i \in DOMAIN rs : IsRecord(rs[i], c, badges[i])

\* A number that 32 bits hold is kept.
IsKept(n, number) == number < Word => n = number

IsMap(m, c, map) ==
  /\ IsRecord(m.info, c, map.badge)
  /\ IsKept(m.size, map.size)
  /\ Len(m.regions) = Len(map.regions)
  /\ \A i \in DOMAIN m.regions :
       LET region == map.regions[i]
       IN  /\ IsRecord(m.regions[i].info, c, region.badge)
           /\ IsKept(m.regions[i].size, region.size)
           /\ IsKept(m.regions[i].offset, region.offset)
           /\ IsKept(m.regions[i].rel_addr, region.rel_addr)

IsThread(t, c, thread) ==
  /\ IsRecord(t.info, c, thread.badge)
  /\ IsKept(t.utcb, thread.utcb)
  /\ t.regs = [r \in Transferred |-> thread.regs[r]]

IsChild(p, c) ==
  /\ DOMAIN p.sessions = DOMAIN c.sessions
  /\ \A s \in DOMAIN c.sessions : IsRecord(p.sessions[s], c, c.sessions[s])
  /\ \A k \in Lists : AreRecords(p.lists[k], c, c.lists[k])
  /\ Len(p.threads) = Len(c.threads)
  /\ \A i \in DOMAIN p.threads : IsThread(p.threads[i], c, c.threads[i])
  /\ \A a \in Areas : IsMap(p.areas[a], c, c.areas[a])
  /\ Len(p.maps) = Len(c.maps) /\ \A i \in DOMAIN p.maps : IsMap(p.maps[i], c, c.maps[i])
  /\ Len(p.rams) = Len(c.rams)
  /\ \A j \in DOMAIN p.rams : /\ IsRecord(p.rams[j].info, c, c.rams[j].badge)
                              /\ p.rams[j].size = c.rams[j].size
                              /\ p.rams[j].content = c.rams[j].content

Fits == pb_size + HeaderSize <= pb_ds_size

\* If the message fits its dataspace, parse() gives back every child with all of
\* its records in their order, the low bits of their slots, the addresses that 32
\* bits hold, the registers that the build transfers, and the memory of each
\* dataspace.  The children themselves come in reverse order.
ParseRestores ==
  phase = "parsed" /\ Fits =>
    /\ Len(parsed) = Len(childs)
    /\ \A i \in DOMAIN childs : IsChild(Reverse(parsed)[i], childs[i])

\* serializer.cc 203: the header holds the original size, "so, the uncompression
\* can allocate a destination dataspace with the right size".  A snapshot whose
\* size the header cannot hold is refused, never parsed in part.
OversizeIsRefused == phase \in {"parse", "parsed"} => size(attachments) < Word

\* When compress() fails, nothing of what serialize() has taken is left: no dataspace,
\* no attachment and nothing in the region map.  The dataspace of compress() itself is
\* left only when it could not be attached, or the region map could not: the clean-up
\* does not know of it. (serializer.cc 150-160, 180-199)
FailureLeavesNothing ==
  [][phase # "refused" /\ phase' = "refused" =>
       /\ attachments' = <<>> /\ memory' = <<>>
       /\ held' = IF phase = "map" THEN {"compressed"} ELSE {}]_serializerVars

\* What serializer.cc 130 says of the dataspace: "create dataspace for protobuf
\* object".  The object fits.
MessageFits == phase \in {"compress", "fault"} => Fits
=============================================================================
