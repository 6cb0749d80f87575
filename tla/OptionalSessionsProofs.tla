------------------------ MODULE OptionalSessionsProofs ------------------------
(***************************************************************************)
(* The fields and region maps of the optional sessions, for every number   *)
(* of threads, calls, region maps and checkpoints.                         *)
(*                                                                         *)
(* A call is in one of few states: not begun, or left at one of its steps  *)
(* with what it has done so far.  Only the call that is served makes steps,*)
(* so that what it has done still stands when it goes on.  Whatever lies   *)
(* outside of the outstanding calls agrees with the parent, and what has   *)
(* been copied outside of the overlapping calls is still what was copied.  *)
(***************************************************************************)
EXTENDS OptionalSessions, TLAPS

\* The fields that a call of the timer and of the ROM session write.
Timeout == <<"timer", "timeout">>
Periodic == <<"timer", "periodic">>
Dataspace == <<"rom", "dataspace">>

\* What a call of the timer tells the parent.
Setting(us, periodic) ==
  [f \in {Timeout, Periodic} |-> IF f = Timeout THEN us ELSE periodic]

\* A call that has not begun.
IsWhole(c) ==
  \/ \E us \in Nat, p \in BOOLEAN : c = trigger(us, p)
  \/ \E f \in Sighs, x \in Contexts : c = sigh(f[1], x)
  \/ \E d \in Dataspaces : c = dataspace(d)
  \/ \E s \in Upgraded : c = upgrade(s)
  \/ \E x \in Contexts : c = alloc_context(x) \/ c = free_context(x)
  \/ \E m \in 1..MaxMaps : c = create(m) \/ c = destroy(m)

\* What is left of the call that is served, and what it has done.
IsBegun(c) ==
  \/ \E us \in Nat, p \in BOOLEAN :
       \/ /\ c = <<Store(Periodic, p), Forward(Setting(us, p))>>
          /\ hot[Timeout] = us % Word
       \/ /\ c = <<Forward(Setting(us, p))>>
          /\ hot[Timeout] = us % Word /\ hot[Periodic] = p
  \/ \E f \in Sighs, x \in Contexts : c = <<Forward(Only(f, x))>> /\ hot[f] = x
  \/ \E d \in Dataspaces : c = <<Store(Dataspace, d)>> /\ parent[Dataspace] = d
  \/ \E m \in 1..MaxMaps : c = <<Do("insert", m)>>

\* The types that the argument needs.
OptTypeOK ==
  /\ DOMAIN hot = Fields /\ DOMAIN cold = Fields /\ DOMAIN parent = Fields
  /\ contexts \in SUBSET Contexts
  /\ maps \subseteq 1..MaxMaps
  /\ at \in 0..Len(Script) + 1
  /\ serving \in Threads \cup {NoThread}
  /\ call = [t \in Threads |-> call[t]]

\* Only the call that is served has begun.
CallsAreWhole ==
  /\ \A t \in Threads : call[t] = <<>> \/ IsWhole(call[t]) \/ (t = serving /\ IsBegun(call[t]))
  /\ serving # NoThread => call[serving] # <<>>

\* A field that no call is about to write is what the parent knows of it.
Agrees(f) == parent[f] # Garbage => hot[f] = Recorded(f, parent[f])

\* No call tells the parent of the arguments of an upgrade.
IdleFieldsAgree ==
  /\ \A f \in Fields \ Outstanding : Agrees(f)
  /\ \A f \in Fields : f[2] = "upgrade_args" => parent[f] = Garbage

\* The handler that a call is about to set.
Given(c, f) ==
  IF c # <<>> /\ Head(c).do = "store" /\ f \in DOMAIN Head(c).on THEN {Head(c).on[f]} ELSE {}

\* What a handler can be, in the session and in the snapshot.
Known == contexts \cup freed \cup {Garbage}
Snapped == i_contexts \cup freed \cup {Garbage}

\* No call that could write the field is issued any more, or none was so far.
Settled(f) == paused \/ f \notin overlapped

\* A handler is a context that the session knows or has freed, and, once the contexts
\* are in the snapshot, one of the snapshot: a child that is paused issues no call
\* that could bring in another, and without a pause a field that no call is about to
\* write keeps its value.
HandlersAreKnown ==
  \A f \in Sighs :
    /\ hot[f] \in Known
    /\ \A t \in Threads : Given(call[t], f) \subseteq Known
    /\ at > 1 => /\ Settled(f) => hot[f] \in Snapped
                 /\ paused => \A t \in Threads : Given(call[t], f) \subseteq Snapped
                 /\ \A i \in 1..at - 1 : Script[i] = f /\ Settled(f) => cold[f] \in Snapped

\* During checkpoint(), what a call is about to write is among the overlapping fields.
OverlapIsTracked == at # 0 => Outstanding \subseteq overlapped

\* What was copied, and no call writes, is still what was copied.
CopiesStand ==
  \A i \in 1..at - 1 : Script[i] \in Fields \ overlapped => cold[Script[i]] = hot[Script[i]]

\* The maps that were being created during checkpoint().
Overlapping == {m \in 1..MaxMaps : <<"insert", m>> \in overlapped}

\* After the walk only a map that was being created can be missing.
MapsAreVisited ==
  /\ at > 4 => maps \subseteq visited \cup Overlapping
  /\ at > 5 => /\ i_maps \subseteq visited \cup Overlapping
               /\ maps \subseteq i_maps \cup Overlapping

\* The inductive invariant.
SnapshotInv ==
  /\ OptTypeOK /\ CallsAreWhole /\ IdleFieldsAgree
  /\ OverlapIsTracked /\ CopiesStand /\ HandlersAreKnown /\ MapsAreVisited

-----------------------------------------------------------------------------
(* The steps of a call. *)

\* The places of the script.
LEMMA ScriptPlaces ==
  /\ Len(Script) = 13
  /\ Script[1] = <<"pd", "contexts">>
  /\ Script[2] = <<"rm", "upgrade_args">> /\ Script[3] = <<"rm", "purge">>
  /\ Script[4] = <<"rm", "visit">> /\ Script[5] = <<"rm", "publish">>
  /\ Script[6] = <<"rom", "upgrade_args">> /\ Script[7] = <<"rom", "dataspace">>
  /\ Script[8] = <<"rom", "sigh">> /\ Script[9] = <<"log", "upgrade_args">>
  /\ Script[10] = <<"timer", "upgrade_args">> /\ Script[11] = <<"timer", "sigh">>
  /\ Script[12] = <<"timer", "timeout">> /\ Script[13] = <<"timer", "periodic">>
BY DEF Script, RmScript, RomScript, LogScript, TimerScript

\* The fields, one by one.
LEMMA FieldsAre ==
  /\ Fields = {<<"rm", "upgrade_args">>, <<"rom", "upgrade_args">>, Dataspace, <<"rom", "sigh">>,
               <<"log", "upgrade_args">>, <<"timer", "upgrade_args">>, <<"timer", "sigh">>,
               Timeout, Periodic}
  /\ Sighs = {<<"rom", "sigh">>, <<"timer", "sigh">>} /\ Sighs \subseteq Fields
BY DEF Fields, RmFields, RomFields, LogFields, TimerFields, Sighs, Timeout, Periodic, Dataspace

\* The steps of a call of the timer.
LEMMA TriggerSteps ==
  ASSUME NEW us, NEW p
  PROVE  LET c == trigger(us, p)
         IN  /\ Head(c) = Store(Timeout, us % Word) /\ Len(c) = 3
             /\ Tail(c) = <<Store(Periodic, p), Forward(Setting(us, p))>>
             /\ Touches(c) = {Timeout, Periodic}
BY DEF trigger, Touches, Store, Forward, Only, Setting, Timeout, Periodic

\* The call of the timer when its first field is stored.
LEMMA PeriodicSteps ==
  ASSUME NEW us, NEW p
  PROVE  LET c == <<Store(Periodic, p), Forward(Setting(us, p))>>
         IN  /\ Head(c) = Store(Periodic, p) /\ Len(c) = 2
             /\ Tail(c) = <<Forward(Setting(us, p))>>
             /\ Touches(c) = {Timeout, Periodic}
BY DEF Touches, Store, Forward, Only, Setting, Timeout, Periodic

\* A handler is stored and then told to the parent.
LEMMA SighSteps ==
  ASSUME NEW f \in Sighs, NEW x
  PROVE  LET c == sigh(f[1], x)
         IN  /\ Head(c) = Store(f, x) /\ Len(c) = 2
             /\ Tail(c) = <<Forward(Only(f, x))>>
             /\ Touches(c) = {f}
BY FieldsAre DEF Touches, Store, Forward, Only, sigh

\* The dataspace is got from the parent and then stored.
LEMMA DataspaceSteps ==
  ASSUME NEW d
  PROVE  LET c == dataspace(d)
         IN  /\ Head(c) = Forward(Only(Dataspace, d)) /\ Len(c) = 2
             /\ Tail(c) = <<Store(Dataspace, d)>>
             /\ Touches(c) = {Dataspace}
BY DEF Touches, Store, Forward, Only, dataspace, Dataspace

\* A map is created at the parent and then inserted.
LEMMA CreateSteps ==
  ASSUME NEW m
  PROVE  LET c == create(m)
         IN  /\ Head(c) = Do("create", m) /\ Len(c) = 2
             /\ Tail(c) = <<Do("insert", m)>>
             /\ Touches(c) = {<<"create", m>>, <<"insert", m>>}
BY DEF Touches, Do, Only, create

\* A call of one step, or the last step of one.
LEMMA OneStep ==
  ASSUME NEW s
  PROVE  LET c == <<s>>
         IN  /\ Head(c) = s /\ Len(c) = 1 /\ Tail(c) = <<>> /\ c # <<>>
             /\ Touches(c) = DOMAIN s.on
BY DEF Touches

\* The last step of a call, with what the call has done before.
IsLast(s) ==
  \/ \E us \in Nat, p \in BOOLEAN :
       s = Forward(Setting(us, p)) /\ hot[Timeout] = us % Word /\ hot[Periodic] = p
  \/ \E f \in Sighs, x \in Contexts : s = Forward(Only(f, x)) /\ hot[f] = x
  \/ \E d \in Dataspaces : s = Store(Dataspace, d) /\ parent[Dataspace] = d
  \/ \E u \in Upgraded : s = Store(<<u, "upgrade_args">>, "dangling")
  \/ \E x \in Contexts : s = Do("alloc", x) \/ s = Do("free", x)
  \/ \E m \in 1..MaxMaps : s = Do("insert", m) \/ s = Do("destroy", OwnBadge(m))

\* A call, whole or begun, has one of the longer forms or one step.
LEMMA CallCases ==
  ASSUME NEW c, IsWhole(c) \/ IsBegun(c)
  PROVE  \/ \E us \in Nat, p \in BOOLEAN : c = trigger(us, p)
         \/ \E us \in Nat, p \in BOOLEAN :
              /\ c = <<Store(Periodic, p), Forward(Setting(us, p))>>
              /\ hot[Timeout] = us % Word
         \/ \E f \in Sighs, x \in Contexts : c = sigh(f[1], x)
         \/ \E d \in Dataspaces : c = dataspace(d)
         \/ \E m \in 1..MaxMaps : c = create(m)
         \/ \E s : c = <<s>> /\ IsLast(s)
<1>1. CASE IsWhole(c)
  BY <1>1 DEF IsWhole, IsLast, upgrade, alloc_context, free_context, destroy
<1>2. CASE IsBegun(c)
  BY <1>2 DEF IsBegun, IsLast
<1>. QED
  BY <1>1, <1>2

\* What is left after a step touches nothing new.
LEMMA RestIsPart ==
  ASSUME NEW c, IsWhole(c) \/ IsBegun(c)
  PROVE  /\ Touches(Tail(c)) \subseteq Touches(c)
         /\ Len(c) # 1 <=> Tail(c) # <<>>
<1>. DEFINE GoesOn == Touches(Tail(c)) \subseteq Touches(c) /\ Tail(c) # <<>> /\ Len(c) # 1
            Ends == Touches(Tail(c)) \subseteq Touches(c) /\ Tail(c) = <<>> /\ Len(c) = 1
<1>1. ASSUME NEW us, NEW p, c = trigger(us, p)
      PROVE  GoesOn
  <2>1. <<Store(Periodic, p), Forward(Setting(us, p))>> # <<>>
    OBVIOUS
  <2>2. /\ Tail(c) = <<Store(Periodic, p), Forward(Setting(us, p))>>
        /\ Touches(c) = {Timeout, Periodic} /\ Len(c) = 3
    BY <1>1, TriggerSteps
  <2>3. Touches(Tail(c)) = {Timeout, Periodic}
    BY <2>2, PeriodicSteps
  <2>. QED
    BY <2>1, <2>2, <2>3
<1>2. ASSUME NEW us, NEW p, c = <<Store(Periodic, p), Forward(Setting(us, p))>>
      PROVE  GoesOn
  <2>1. Tail(c) = <<Forward(Setting(us, p))>> /\ Touches(c) = {Timeout, Periodic} /\ Len(c) = 2
    BY <1>2, PeriodicSteps
  <2>2. Touches(Tail(c)) = DOMAIN Forward(Setting(us, p)).on /\ Tail(c) # <<>>
    BY <2>1, OneStep
  <2>. QED
    BY <2>1, <2>2 DEF Forward, Setting
<1>3. ASSUME NEW f \in Sighs, NEW x, c = sigh(f[1], x)
      PROVE  GoesOn
  <2>1. Tail(c) = <<Forward(Only(f, x))>> /\ Touches(c) = {f} /\ Len(c) = 2
    BY <1>3, SighSteps
  <2>2. Touches(Tail(c)) = DOMAIN Forward(Only(f, x)).on /\ Tail(c) # <<>>
    BY <2>1, OneStep
  <2>. QED
    BY <2>1, <2>2 DEF Forward, Only
<1>4. ASSUME NEW d, c = dataspace(d)
      PROVE  GoesOn
  <2>1. Tail(c) = <<Store(Dataspace, d)>> /\ Touches(c) = {Dataspace} /\ Len(c) = 2
    BY <1>4, DataspaceSteps
  <2>2. Touches(Tail(c)) = DOMAIN Store(Dataspace, d).on /\ Tail(c) # <<>>
    BY <2>1, OneStep
  <2>. QED
    BY <2>1, <2>2 DEF Store, Only
<1>5. ASSUME NEW m, c = create(m)
      PROVE  GoesOn
  <2>1. Tail(c) = <<Do("insert", m)>> /\ Len(c) = 2
        /\ Touches(c) = {<<"create", m>>, <<"insert", m>>}
    BY <1>5, CreateSteps
  <2>2. Touches(Tail(c)) = DOMAIN Do("insert", m).on /\ Tail(c) # <<>>
    BY <2>1, OneStep
  <2>. QED
    BY <2>1, <2>2 DEF Do, Only
<1>6. ASSUME NEW s, c = <<s>>
      PROVE  Ends
  <2>1. Touches(<<>>) = {}
    BY DEF Touches
  <2>. QED
    BY <1>6, <2>1, OneStep
<1>. HIDE DEF GoesOn, Ends
<1>7. GoesOn \/ Ends
  BY <1>1, <1>2, <1>3, <1>4, <1>5, <1>6, CallCases
<1>. QED
  BY <1>7 DEF GoesOn, Ends

\* A step takes the head off the call that is served.
LEMMA StepEffect ==
  ASSUME OptTypeOK, CallsAreWhole, NEW op, Step(op)
  PROVE  LET t == serving
         IN  /\ t \in Threads
             /\ IsWhole(call[t]) \/ IsBegun(call[t])
             /\ Head(call[t]).do = op
             /\ call'[t] = Tail(call[t])
             /\ \A u \in Threads \ {t} : call'[u] = call[u] /\ (call[u] = <<>> \/ IsWhole(call[u]))
             /\ call' = [u \in Threads |-> call'[u]]
             /\ serving' \in {t, NoThread} /\ (serving' = t <=> call'[t] # <<>>)
             /\ Touches(call'[t]) \subseteq Touches(call[t])
             /\ Outstanding' \subseteq Outstanding
             /\ Touches(call[t]) \subseteq Outstanding
             /\ \A f \in Outstanding \ Outstanding' : f \in Touches(call[t]) \ Touches(call'[t])
<1> DEFINE t == serving
<1>1. /\ t \in Threads /\ call[t] # <<>>
      /\ Head(call[t]).do = op
      /\ call' = [call EXCEPT ![t] = Tail(@)]
      /\ serving' = IF Len(call[t]) = 1 THEN NoThread ELSE t
      /\ NoThread \notin Threads
  BY OptionalAssumption DEF Step, OptTypeOK, CallsAreWhole
<1>2. /\ call'[t] = Tail(call[t])
      /\ \A u \in Threads \ {t} : call'[u] = call[u] /\ (call[u] = <<>> \/ IsWhole(call[u]))
      /\ call' = [u \in Threads |-> call'[u]]
  BY <1>1 DEF OptTypeOK, CallsAreWhole
<1>3. IsWhole(call[t]) \/ IsBegun(call[t])
  BY <1>1 DEF CallsAreWhole
<1>. HIDE DEF t
<1>4. /\ Touches(Tail(call[t])) \subseteq Touches(call[t])
      /\ Len(call[t]) # 1 <=> Tail(call[t]) # <<>>
  BY <1>3, RestIsPart
<1>5. /\ Touches(call'[t]) \subseteq Touches(call[t])
      /\ serving' \in {t, NoThread} /\ (serving' = t <=> call'[t] # <<>>)
  BY <1>1, <1>2, <1>4
<1>6. /\ Outstanding' \subseteq Outstanding /\ Touches(call[t]) \subseteq Outstanding
      /\ \A f \in Outstanding \ Outstanding' : f \in Touches(call[t]) \ Touches(call'[t])
  <2>1. Outstanding' = UNION {Touches(call'[u]) : u \in Threads}
    BY DEF Outstanding, Touches
  <2>. QED
    BY <1>1, <1>2, <1>5, <2>1 DEF Outstanding
<1>. QED
  BY <1>1, <1>2, <1>3, <1>5, <1>6 DEF t

\* What the served step assigns.
LEMMA AssignedIs ==
  ASSUME NEW fields, DOMAIN fields = Fields
  PROVE  /\ \A f \in Fields : \A v :
              Values = Only(f, v) => Assigned(fields) = [fields EXCEPT ![f] = v]
         /\ DOMAIN Assigned(fields) = Fields
         /\ \A f \in Fields : f \in DOMAIN Values => Assigned(fields)[f] = Values[f]
         /\ \A f \in Fields : f \notin DOMAIN Values => Assigned(fields)[f] = fields[f]
<1>1. ASSUME NEW f \in Fields, NEW v, Values = Only(f, v)
      PROVE  Assigned(fields) = [fields EXCEPT ![f] = v]
  <2>1. DOMAIN Values = {f} /\ Values[f] = v
    BY <1>1 DEF Only
  <2>. QED
    BY <2>1 DEF Assigned
<1>. QED
  BY <1>1 DEF Assigned

\* The operand of an operation on a list.
LEMMA OperandIs ==
  ASSUME NEW op, NEW x, Values = Only(<<op, x>>, x)
  PROVE  Operand = x
<1>1. {Values[p] : p \in DOMAIN Values} = {x}
  BY DEF Only
<1>. QED
  BY <1>1 DEF Operand

\* The kinds of steps.
LEMMA KindsOfSteps ==
  /\ \A f, v : Store(f, v).do = "store"
  /\ \A values : Forward(values).do = "forward"
  /\ \A op, x : Do(op, x).do = op
BY DEF Store, Forward, Do

\* A store assigns one field, and either the call goes on or the field is settled.
LEMMA StoreEffect ==
  ASSUME OptTypeOK, CallsAreWhole, IdleFieldsAgree, StoreField
  PROVE  \E f \in Fields : \E v, r :
           /\ Head(call[serving]) = Store(f, v) /\ f \in Touches(call[serving])
           /\ hot' = [hot EXCEPT ![f] = v] /\ parent' = parent
           /\ r = call'[serving]
           /\ \/ r = <<>> /\ Touches(call[serving]) = {f} /\ Agrees(f)'
              \/ IsBegun(r)' /\ Touches(r) = Touches(call[serving])
<1>. DEFINE c == call[serving]
<1>1. /\ Step("store") /\ hot' = Assigned(hot) /\ parent' = parent
      /\ DOMAIN hot = Fields
  BY DEF StoreField, parentVars, OptTypeOK
<1>2. /\ IsWhole(c) \/ IsBegun(c)
      /\ Head(c).do = "store" /\ call'[serving] = Tail(c)
  BY <1>1, StepEffect
<1>3. ASSUME NEW f \in Fields, NEW v, Head(c) = Store(f, v)
      PROVE  hot' = [hot EXCEPT ![f] = v] /\ hot'[f] = v
             /\ \A g \in Fields \ {f} : hot'[g] = hot[g]
  <2>1. Values = Only(f, v)
    BY <1>3 DEF Values, Store
  <2>. QED
    BY <1>1, <2>1, AssignedIs
<1>. HIDE DEF c
<1>4. CASE \E us \in Nat, p \in BOOLEAN : c = trigger(us, p)
  <2>1. PICK us \in Nat, p \in BOOLEAN : c = trigger(us, p)
    BY <1>4
  <2>2. DEFINE r == <<Store(Periodic, p), Forward(Setting(us, p))>>
  <2>3. /\ Head(c) = Store(Timeout, us % Word) /\ Tail(c) = r /\ Touches(c) = {Timeout, Periodic}
        /\ Touches(r) = {Timeout, Periodic} /\ Timeout \in Fields
    BY <2>1, TriggerSteps, PeriodicSteps, FieldsAre
  <2>4. hot' = [hot EXCEPT ![Timeout] = us % Word] /\ hot'[Timeout] = us % Word
    BY <1>3, <2>3
  <2>5. IsBegun(r)'
    BY <2>4 DEF IsBegun
  <2>. HIDE DEF r
  <2>6. /\ Head(c) = Store(Timeout, us % Word) /\ Timeout \in Touches(c) /\ Timeout \in Fields
        /\ hot' = [hot EXCEPT ![Timeout] = us % Word] /\ parent' = parent
        /\ r = call'[serving] /\ IsBegun(r)' /\ Touches(r) = Touches(c)
    BY <1>1, <1>2, <2>3, <2>4, <2>5
  <2>. QED
    BY <2>6 DEF c
<1>5. CASE \E us \in Nat, p \in BOOLEAN :
             /\ c = <<Store(Periodic, p), Forward(Setting(us, p))>>
             /\ hot[Timeout] = us % Word
  <2>1. PICK us \in Nat, p \in BOOLEAN :
             /\ c = <<Store(Periodic, p), Forward(Setting(us, p))>>
             /\ hot[Timeout] = us % Word
    BY <1>5
  <2>2. DEFINE r == <<Forward(Setting(us, p))>>
  <2>3. /\ Head(c) = Store(Periodic, p) /\ Tail(c) = r /\ Touches(c) = {Timeout, Periodic}
        /\ Periodic \in Fields /\ Timeout \in Fields \ {Periodic}
    BY <2>1, PeriodicSteps, FieldsAre DEF Timeout, Periodic
  <2>4. Touches(r) = {Timeout, Periodic}
    BY OneStep DEF Forward, Setting
  <2>5. /\ hot' = [hot EXCEPT ![Periodic] = p] /\ hot'[Timeout] = us % Word
        /\ hot'[Periodic] = p
    BY <1>3, <2>1, <2>3
  <2>6. IsBegun(r)'
    BY <2>5 DEF IsBegun
  <2>. HIDE DEF r
  <2>7. /\ Head(c) = Store(Periodic, p) /\ Periodic \in Touches(c) /\ Periodic \in Fields
        /\ hot' = [hot EXCEPT ![Periodic] = p] /\ parent' = parent
        /\ r = call'[serving] /\ IsBegun(r)' /\ Touches(r) = Touches(c)
    BY <1>1, <1>2, <2>3, <2>4, <2>5, <2>6
  <2>. QED
    BY <2>7 DEF c
<1>6. CASE \E f \in Sighs, x \in Contexts : c = sigh(f[1], x)
  <2>1. PICK f \in Sighs, x \in Contexts : c = sigh(f[1], x)
    BY <1>6
  <2>2. DEFINE r == <<Forward(Only(f, x))>>
  <2>3. Head(c) = Store(f, x) /\ Tail(c) = r /\ Touches(c) = {f} /\ f \in Fields
    BY <2>1, SighSteps, FieldsAre
  <2>4. Touches(r) = {f}
    BY OneStep DEF Forward, Only
  <2>5. hot' = [hot EXCEPT ![f] = x] /\ hot'[f] = x
    BY <1>3, <2>3
  <2>6. IsBegun(r)'
    BY <2>5 DEF IsBegun
  <2>. HIDE DEF r
  <2>7. /\ Head(c) = Store(f, x) /\ f \in Touches(c) /\ f \in Fields
        /\ hot' = [hot EXCEPT ![f] = x] /\ parent' = parent
        /\ r = call'[serving] /\ IsBegun(r)' /\ Touches(r) = Touches(c)
    BY <1>1, <1>2, <2>3, <2>4, <2>5, <2>6
  <2>. QED
    BY <2>7 DEF c
<1>7. CASE \E d \in Dataspaces : c = dataspace(d)
  <2>1. PICK d \in Dataspaces : c = dataspace(d)
    BY <1>7
  <2>2. Head(c) = Forward(Only(Dataspace, d))
    BY <2>1, DataspaceSteps
  <2>. QED
    BY <1>2, <2>2 DEF Forward
<1>8. CASE \E m \in 1..MaxMaps : c = create(m)
  <2>1. PICK m \in 1..MaxMaps : c = create(m)
    BY <1>8
  <2>2. Head(c) = Do("create", m)
    BY <2>1, CreateSteps
  <2>. QED
    BY <1>2, <2>2 DEF Do
<1>9. CASE \E s : c = <<s>> /\ IsLast(s)
  <2>1. PICK s : c = <<s>> /\ IsLast(s)
    BY <1>9
  <2>2. s.do = "store" /\ Head(c) = s /\ Tail(c) = <<>> /\ Touches(c) = DOMAIN s.on
    BY <1>2, <2>1, OneStep
  <2>3. \/ \E d \in Dataspaces : s = Store(Dataspace, d) /\ parent[Dataspace] = d
        \/ \E u \in Upgraded : s = Store(<<u, "upgrade_args">>, "dangling")
    BY <2>1, <2>2, KindsOfSteps DEF IsLast
  <2>4. CASE \E d \in Dataspaces : s = Store(Dataspace, d) /\ parent[Dataspace] = d
    <3>1. PICK d \in Dataspaces : s = Store(Dataspace, d) /\ parent[Dataspace] = d
      BY <2>4
    <3>2. Touches(c) = {Dataspace} /\ Dataspace \in Fields /\ Dataspace # Timeout
      BY <2>2, <3>1, FieldsAre DEF Store, Only, Dataspace, Timeout
    <3>3. hot' = [hot EXCEPT ![Dataspace] = d] /\ hot'[Dataspace] = d
      BY <1>3, <2>2, <3>1, <3>2
    <3>4. Agrees(Dataspace)'
      BY <1>1, <3>1, <3>2, <3>3 DEF Agrees, Recorded, Timeout
    <3>. QED
      BY <1>1, <1>2, <2>2, <3>1, <3>2, <3>3, <3>4 DEF c
  <2>5. CASE \E u \in Upgraded : s = Store(<<u, "upgrade_args">>, "dangling")
    <3>1. PICK u \in Upgraded : s = Store(<<u, "upgrade_args">>, "dangling")
      BY <2>5
    <3>. DEFINE f == <<u, "upgrade_args">>
    <3>2. Touches(c) = {f} /\ f \in Fields /\ f[2] = "upgrade_args"
      <4>1. DOMAIN Store(f, "dangling").on = {f}
        BY DEF Store, Only
      <4>2. f \in Fields
        BY FieldsAre, OptionalAssumption
      <4>. QED
        BY <2>2, <3>1, <4>1, <4>2
    <3>3. hot' = [hot EXCEPT ![f] = "dangling"]
      BY <1>3, <2>2, <3>1, <3>2
    <3>4. Agrees(f)'
      BY <1>1, <3>2 DEF Agrees, IdleFieldsAgree
    <3>. QED
      BY <1>1, <1>2, <2>2, <3>1, <3>2, <3>3, <3>4 DEF c
  <2>. QED
    BY <2>3, <2>4, <2>5
<1>. QED
  BY <1>2, <1>4, <1>5, <1>6, <1>7, <1>8, <1>9, CallCases

\* A call of the parent gives it what the fields hold, or a value to store; it says
\* nothing of the arguments of an upgrade.
LEMMA ForwardEffect ==
  ASSUME OptTypeOK, CallsAreWhole, IdleFieldsAgree, ForwardCall
  PROVE  /\ hot' = hot /\ DOMAIN parent' = Fields
         /\ \A f \in Fields \ Touches(call[serving]) : parent'[f] = parent[f]
         /\ \A f \in Fields : f[2] = "upgrade_args" => parent'[f] = parent[f]
         /\ \E r : /\ r = call'[serving]
                   /\ \/ r = <<>> /\ \A f \in Fields \cap Touches(call[serving]) : Agrees(f)'
                      \/ IsBegun(r)' /\ Touches(r) = Touches(call[serving])
<1>. DEFINE c == call[serving]
<1>1. /\ Step("forward") /\ hot' = hot /\ parent' = Assigned(parent)
      /\ DOMAIN parent = Fields
  BY DEF ForwardCall, hotVars, OptTypeOK
<1>2. /\ IsWhole(c) \/ IsBegun(c)
      /\ Head(c).do = "forward" /\ call'[serving] = Tail(c)
  BY <1>1, StepEffect
<1>3. ASSUME NEW values, Head(c) = Forward(values)
      PROVE  /\ DOMAIN parent' = Fields
             /\ \A f \in Fields : parent'[f] = IF f \in DOMAIN values THEN values[f] ELSE parent[f]
  <2>1. Values = values
    BY <1>3 DEF Values, Forward
  <2>. QED
    BY <1>1, <2>1, AssignedIs
<1>. HIDE DEF c
<1>4. CASE \E us \in Nat, p \in BOOLEAN : c = trigger(us, p)
  <2>1. PICK us \in Nat, p \in BOOLEAN : c = trigger(us, p)
    BY <1>4
  <2>2. Head(c) = Store(Timeout, us % Word)
    BY <2>1, TriggerSteps
  <2>. QED
    BY <1>2, <2>2, KindsOfSteps
<1>5. CASE \E us \in Nat, p \in BOOLEAN :
             /\ c = <<Store(Periodic, p), Forward(Setting(us, p))>>
             /\ hot[Timeout] = us % Word
  <2>1. PICK us \in Nat, p \in BOOLEAN : c = <<Store(Periodic, p), Forward(Setting(us, p))>>
    BY <1>5
  <2>2. Head(c) = Store(Periodic, p)
    BY <2>1, PeriodicSteps
  <2>. QED
    BY <1>2, <2>2, KindsOfSteps
<1>6. CASE \E f \in Sighs, x \in Contexts : c = sigh(f[1], x)
  <2>1. PICK f \in Sighs, x \in Contexts : c = sigh(f[1], x)
    BY <1>6
  <2>2. Head(c) = Store(f, x)
    BY <2>1, SighSteps
  <2>. QED
    BY <1>2, <2>2, KindsOfSteps
<1>7. CASE \E d \in Dataspaces : c = dataspace(d)
  <2>1. PICK d \in Dataspaces : c = dataspace(d)
    BY <1>7
  <2>2. DEFINE r == <<Store(Dataspace, d)>>
  <2>3. Head(c) = Forward(Only(Dataspace, d)) /\ Tail(c) = r /\ Touches(c) = {Dataspace}
    BY <2>1, DataspaceSteps
  <2>4. Touches(r) = {Dataspace}
    BY OneStep DEF Store, Only
  <2>5. DOMAIN Only(Dataspace, d) = {Dataspace} /\ Only(Dataspace, d)[Dataspace] = d
    BY DEF Only
  <2>6. /\ DOMAIN parent' = Fields /\ parent'[Dataspace] = d
        /\ \A f \in Fields \ {Dataspace} : parent'[f] = parent[f]
    <3>1. /\ DOMAIN parent' = Fields
          /\ \A f \in Fields : parent'[f] = IF f \in DOMAIN Only(Dataspace, d)
                                           THEN Only(Dataspace, d)[f] ELSE parent[f]
      BY <1>3, <2>3
    <3>2. Dataspace \in Fields
      BY FieldsAre
    <3>. QED
      BY <2>5, <3>1, <3>2
  <2>7. IsBegun(r)'
    BY <2>6 DEF IsBegun
  <2>8. Dataspace[2] # "upgrade_args"
    BY DEF Dataspace
  <2>. HIDE DEF r
  <2>9. r = call'[serving] /\ IsBegun(r)' /\ Touches(r) = Touches(c)
    BY <1>2, <2>3, <2>4, <2>7
  <2>. QED
    BY <1>1, <2>3, <2>6, <2>8, <2>9 DEF c
<1>8. CASE \E m \in 1..MaxMaps : c = create(m)
  <2>1. PICK m \in 1..MaxMaps : c = create(m)
    BY <1>8
  <2>2. Head(c) = Do("create", m)
    BY <2>1, CreateSteps
  <2>. QED
    BY <1>2, <2>2, KindsOfSteps
<1>9. CASE \E s : c = <<s>> /\ IsLast(s)
  <2>1. PICK s : c = <<s>> /\ IsLast(s)
    BY <1>9
  <2>2. s.do = "forward" /\ Head(c) = s /\ Tail(c) = <<>> /\ Touches(c) = DOMAIN s.on
    BY <1>2, <2>1, OneStep
  <2>3. \/ \E us \in Nat, p \in BOOLEAN :
             s = Forward(Setting(us, p)) /\ hot[Timeout] = us % Word /\ hot[Periodic] = p
        \/ \E f \in Sighs, x \in Contexts : s = Forward(Only(f, x)) /\ hot[f] = x
    <3>1. /\ \A f, v : Store(f, v).do # "forward"
          /\ \A x : /\ Do("alloc", x).do # "forward" /\ Do("free", x).do # "forward"
                   /\ Do("insert", x).do # "forward" /\ Do("destroy", x).do # "forward"
      BY KindsOfSteps
    <3>2. /\ \A f, v : s # Store(f, v)
          /\ \A x : s \notin {Do("alloc", x), Do("free", x), Do("insert", x), Do("destroy", x)}
      BY <2>2, <3>1
    <3>. QED
      BY <2>1, <3>2 DEF IsLast
  <2>4. CASE \E us \in Nat, p \in BOOLEAN :
               s = Forward(Setting(us, p)) /\ hot[Timeout] = us % Word /\ hot[Periodic] = p
    <3>1. PICK us \in Nat, p \in BOOLEAN :
               s = Forward(Setting(us, p)) /\ hot[Timeout] = us % Word /\ hot[Periodic] = p
      BY <2>4
    <3>2. /\ DOMAIN Setting(us, p) = {Timeout, Periodic} /\ Timeout # Periodic
          /\ Setting(us, p)[Timeout] = us /\ Setting(us, p)[Periodic] = p
      BY DEF Setting, Timeout, Periodic
    <3>3. /\ DOMAIN parent' = Fields /\ parent'[Timeout] = us /\ parent'[Periodic] = p
          /\ \A f \in Fields \ {Timeout, Periodic} : parent'[f] = parent[f]
      BY <1>3, <2>2, <3>1, <3>2, FieldsAre
    <3>4. Timeout[2] # "upgrade_args" /\ Periodic[2] # "upgrade_args"
      BY DEF Timeout, Periodic
    <3>5. Touches(c) = {Timeout, Periodic}
      BY <2>2, <3>1, <3>2 DEF Forward
    <3>6. Agrees(Timeout)' /\ Agrees(Periodic)'
      BY <1>1, <3>1, <3>2, <3>3 DEF Agrees, Recorded, Timeout
    <3>. QED
      BY <1>1, <1>2, <2>2, <3>3, <3>4, <3>5, <3>6 DEF c
  <2>5. CASE \E f \in Sighs, x \in Contexts : s = Forward(Only(f, x)) /\ hot[f] = x
    <3>1. PICK f \in Sighs, x \in Contexts : s = Forward(Only(f, x)) /\ hot[f] = x
      BY <2>5
    <3>2. /\ DOMAIN Only(f, x) = {f} /\ Only(f, x)[f] = x
          /\ f \in Fields /\ f # Timeout /\ f[2] # "upgrade_args"
      BY FieldsAre DEF Only, Timeout
    <3>3. /\ DOMAIN parent' = Fields /\ parent'[f] = x
          /\ \A g \in Fields \ {f} : parent'[g] = parent[g]
      BY <1>3, <2>2, <3>1, <3>2
    <3>4. Touches(c) = {f}
      BY <2>2, <3>1, <3>2 DEF Forward
    <3>5. Agrees(f)'
      BY <1>1, <3>1, <3>2, <3>3 DEF Agrees, Recorded, Timeout
    <3>. QED
      BY <1>1, <1>2, <2>2, <3>2, <3>3, <3>4, <3>5 DEF c
  <2>. QED
    BY <2>3, <2>4, <2>5
<1>. QED
  BY <1>2, <1>4, <1>5, <1>6, <1>7, <1>8, <1>9, CallCases

\* The operations on the lists.
ListOps == {"alloc", "free", "create", "insert", "destroy"}

\* An operation on a list touches no field; its operand, and what is left of its call.
LEMMA ListEffect ==
  ASSUME OptTypeOK, CallsAreWhole, NEW op \in ListOps, Step(op)
  PROVE  /\ Fields \cap Touches(call[serving]) = {}
         /\ <<op, Operand>> \in Touches(call[serving])
         /\ op \in {"alloc", "free"} => Operand \in Contexts
         /\ op \in {"create", "insert"} => Operand \in 1..MaxMaps
         /\ call'[serving] \in {<<>>, <<Do("insert", Operand)>>}
         /\ call'[serving] # <<>> => Operand \in 1..MaxMaps
<1>. DEFINE c == call[serving]
<1>1. op \in ListOps /\ Step(op)
  OBVIOUS
<1>2. /\ IsWhole(c) \/ IsBegun(c)
      /\ Head(c).do = op /\ call'[serving] = Tail(c)
  BY <1>1, StepEffect
<1>3. ASSUME NEW o, NEW x, Head(c) = Do(o, x)
      PROVE  op = o /\ Operand = x
  <2>1. op = o /\ Values = Only(<<o, x>>, x)
    BY <1>2, <1>3 DEF Values, Do
  <2>. QED
    BY <2>1, OperandIs
<1>4. ASSUME NEW x PROVE <<op, x>> \notin Fields
  BY <1>1, FieldsAre DEF ListOps, Timeout, Periodic, Dataspace
<1>. HIDE DEF c
<1>5. op # "store" /\ op # "forward"
  BY <1>1 DEF ListOps
<1>6. CASE \E m \in 1..MaxMaps : c = create(m)
  <2>1. PICK m \in 1..MaxMaps : c = create(m)
    BY <1>6
  <2>2. /\ Head(c) = Do("create", m) /\ Tail(c) = <<Do("insert", m)>>
        /\ Touches(c) = {<<"create", m>>, <<"insert", m>>}
    BY <2>1, CreateSteps
  <2>3. op = "create" /\ Operand = m
    BY <1>3, <2>2
  <2>4. Fields \cap Touches(c) = {}
    BY <2>2, FieldsAre DEF Timeout, Periodic, Dataspace
  <2>. QED
    BY <1>1, <1>2, <2>2, <2>3, <2>4 DEF c
<1>7. CASE \E s : c = <<s>> /\ IsLast(s)
  <2>1. PICK s : c = <<s>> /\ IsLast(s)
    BY <1>7
  <2>2. s.do = op /\ Head(c) = s /\ Tail(c) = <<>> /\ Touches(c) = DOMAIN s.on
    BY <1>2, <2>1, OneStep
  <2>3. \/ \E x \in Contexts : s = Do("alloc", x) \/ s = Do("free", x)
        \/ \E m \in 1..MaxMaps : s = Do("insert", m) \/ s = Do("destroy", OwnBadge(m))
    <3>1. /\ \A f, v : s # Store(f, v)
          /\ \A values : s # Forward(values)
      BY <1>5, <2>2, KindsOfSteps
    <3>. QED
      BY <2>1, <3>1 DEF IsLast
  <2>4. PICK o, x : /\ s = Do(o, x) /\ o \in {"alloc", "free", "insert", "destroy"}
                    /\ o \in {"alloc", "free"} => x \in Contexts
                    /\ o \in {"create", "insert"} => x \in 1..MaxMaps
    BY <2>3
  <2>5. op = o /\ Operand = x
    BY <1>3, <2>2, <2>4
  <2>6. Touches(c) = {<<op, x>>}
    BY <2>2, <2>4, <2>5 DEF Do, Only
  <2>. QED
    BY <1>1, <1>2, <1>4, <2>2, <2>4, <2>5, <2>6 DEF c
<1>8. CASE \E us \in Nat, p \in BOOLEAN : c = trigger(us, p)
  <2>1. PICK us \in Nat, p \in BOOLEAN : c = trigger(us, p)
    BY <1>8
  <2>2. Head(c) = Store(Timeout, us % Word)
    BY <2>1, TriggerSteps
  <2>. QED
    BY <1>2, <1>5, <2>2, KindsOfSteps
<1>9. CASE \E us \in Nat, p \in BOOLEAN :
             /\ c = <<Store(Periodic, p), Forward(Setting(us, p))>>
             /\ hot[Timeout] = us % Word
  <2>1. PICK us \in Nat, p \in BOOLEAN : c = <<Store(Periodic, p), Forward(Setting(us, p))>>
    BY <1>9
  <2>2. Head(c) = Store(Periodic, p)
    BY <2>1, PeriodicSteps
  <2>. QED
    BY <1>2, <1>5, <2>2, KindsOfSteps
<1>10. CASE \E f \in Sighs, x \in Contexts : c = sigh(f[1], x)
  <2>1. PICK f \in Sighs, x \in Contexts : c = sigh(f[1], x)
    BY <1>10
  <2>2. Head(c) = Store(f, x)
    BY <2>1, SighSteps
  <2>. QED
    BY <1>2, <1>5, <2>2, KindsOfSteps
<1>11. CASE \E d \in Dataspaces : c = dataspace(d)
  <2>1. PICK d \in Dataspaces : c = dataspace(d)
    BY <1>11
  <2>2. Head(c) = Forward(Only(Dataspace, d))
    BY <2>1, DataspaceSteps
  <2>. QED
    BY <1>2, <1>5, <2>2, KindsOfSteps
<1>. QED
  BY <1>2, <1>6, <1>7, <1>8, <1>9, <1>10, <1>11, CallCases

-----------------------------------------------------------------------------
(* The calls of the child. *)

\* A call that begins is whole, and the handler that it sets is in the list.
LEMMA ChildIssues ==
  ASSUME OptTypeOK, NEW t \in Threads, ChildCalls(t)
  PROVE  \E c : /\ Issue(t, c) /\ IsWhole(c) /\ c # <<>>
                /\ \A f \in Sighs : Given(c, f) \subseteq contexts
<1>1. ASSUME NEW us \in Nat, NEW p \in BOOLEAN, Issue(t, trigger(us, p))
      PROVE  \E c : /\ Issue(t, c) /\ IsWhole(c) /\ c # <<>>
                    /\ \A f \in Sighs : Given(c, f) \subseteq contexts
  <2>1. PICK c : c = trigger(us, p)
    OBVIOUS
  <2>2. IsWhole(c)
    BY <2>1 DEF IsWhole
  <2>3. Head(c) = Store(Timeout, us % Word) /\ Len(c) = 3
    BY <2>1, TriggerSteps
  <2>4. \A f \in Sighs : Given(c, f) = {}
    BY <2>3, FieldsAre DEF Given, Store, Only, Timeout
  <2>5. c # <<>>
    BY <2>1 DEF trigger
  <2>. QED
    BY <1>1, <2>1, <2>2, <2>4, <2>5
<1>2. ASSUME NEW time \in Times,
             \/ Issue(t, trigger_once(time)) \/ Issue(t, trigger_periodic(time))
             \/ Issue(t, msleep(time))
      PROVE  \E us \in Nat, p \in BOOLEAN : Issue(t, trigger(us, p))
  <2>1. time \in Nat /\ Kilo * time \in Nat
    BY OptionalAssumption
  <2>. QED
    BY <1>2, <2>1 DEF trigger_once, trigger_periodic, msleep
<1>3. ASSUME NEW f \in Sighs, NEW x \in contexts, Issue(t, sigh(f[1], x))
      PROVE  \E c : /\ Issue(t, c) /\ IsWhole(c) /\ c # <<>>
                    /\ \A g \in Sighs : Given(c, g) \subseteq contexts
  <2>1. PICK c : c = sigh(f[1], x)
    OBVIOUS
  <2>2. IsWhole(c)
    BY <2>1 DEF IsWhole, OptTypeOK
  <2>3. Head(c) = Store(f, x) /\ Len(c) = 2
    BY <2>1, SighSteps
  <2>4. \A g \in Sighs : Given(c, g) \subseteq {x}
    BY <2>3 DEF Given, Store, Only
  <2>5. c # <<>>
    BY <2>1 DEF sigh
  <2>. QED
    BY <1>3, <2>1, <2>2, <2>4, <2>5
<1>4. ASSUME NEW d \in Dataspaces, Issue(t, dataspace(d))
      PROVE  \E c : /\ Issue(t, c) /\ IsWhole(c) /\ c # <<>>
                    /\ \A f \in Sighs : Given(c, f) \subseteq contexts
  <2>1. PICK c : c = dataspace(d)
    OBVIOUS
  <2>2. IsWhole(c)
    BY <2>1 DEF IsWhole
  <2>3. Head(c) = Forward(Only(Dataspace, d))
    BY <2>1, DataspaceSteps
  <2>4. \A f \in Sighs : Given(c, f) = {}
    BY <2>3 DEF Given, Forward
  <2>5. c # <<>>
    BY <2>1 DEF dataspace
  <2>. QED
    BY <1>4, <2>1, <2>2, <2>4, <2>5
<1>5. ASSUME NEW s \in Upgraded, Issue(t, upgrade(s))
      PROVE  \E c : /\ Issue(t, c) /\ IsWhole(c) /\ c # <<>>
                    /\ \A f \in Sighs : Given(c, f) \subseteq contexts
  <2>1. PICK c : c = upgrade(s)
    OBVIOUS
  <2>2. IsWhole(c)
    BY <2>1 DEF IsWhole
  <2>3. Head(c) = Store(<<s, "upgrade_args">>, "dangling") /\ c # <<>>
    BY <2>1, OneStep DEF upgrade
  <2>4. \A f \in Sighs : Given(c, f) = {}
    BY <2>3, FieldsAre DEF Given, Store, Only
  <2>. QED
    BY <1>5, <2>1, <2>2, <2>3, <2>4
<1>6. ASSUME NEW op \in {"alloc", "free", "create", "destroy"}, NEW x, NEW c,
             Issue(t, c), IsWhole(c), Head(c) = Do(op, x), c # <<>>
      PROVE  \E b : /\ Issue(t, b) /\ IsWhole(b) /\ b # <<>>
                    /\ \A f \in Sighs : Given(b, f) \subseteq contexts
  <2>1. \A f \in Sighs : Given(c, f) = {}
    BY <1>6 DEF Given, Do
  <2>. QED
    BY <1>6, <2>1
<1>7. ASSUME NEW x \in Contexts, Issue(t, alloc_context(x)) \/ Issue(t, free_context(x))
      PROVE  \E c : /\ Issue(t, c) /\ IsWhole(c) /\ c # <<>>
                    /\ \A f \in Sighs : Given(c, f) \subseteq contexts
  <2>1. PICK c : (c = alloc_context(x) \/ c = free_context(x)) /\ Issue(t, c)
    BY <1>7
  <2>2. IsWhole(c)
    BY <2>1 DEF IsWhole
  <2>3. (Head(c) = Do("alloc", x) \/ Head(c) = Do("free", x)) /\ c # <<>>
    BY <2>1, OneStep DEF alloc_context, free_context
  <2>. QED
    BY <1>6, <2>1, <2>2, <2>3
<1>8. ASSUME NEW m \in 1..MaxMaps, Issue(t, create(m)) \/ Issue(t, destroy(m))
      PROVE  \E c : /\ Issue(t, c) /\ IsWhole(c) /\ c # <<>>
                    /\ \A f \in Sighs : Given(c, f) \subseteq contexts
  <2>1. PICK c : (c = create(m) \/ c = destroy(m)) /\ Issue(t, c)
    BY <1>8
  <2>2. IsWhole(c)
    BY <2>1 DEF IsWhole
  <2>3. (Head(c) = Do("create", m) \/ Head(c) = Do("destroy", OwnBadge(m))) /\ c # <<>>
    <3>1. CASE c = create(m)
      <4>1. c # <<>>
        BY <3>1 DEF create
      <4>. QED
        BY <3>1, <4>1, CreateSteps
    <3>2. CASE c = destroy(m)
      BY <3>2, OneStep DEF destroy
    <3>. QED
      BY <2>1, <3>1, <3>2
  <2>. QED
    BY <1>6, <2>1, <2>2, <2>3
<1>9. contexts \subseteq Contexts /\ maps \subseteq 1..MaxMaps
  BY DEF OptTypeOK
<1>10. \/ \E us \in Nat, p \in BOOLEAN : Issue(t, trigger(us, p))
       \/ \E f \in Sighs, x \in contexts : Issue(t, sigh(f[1], x))
       \/ \E d \in Dataspaces : Issue(t, dataspace(d))
       \/ \E s \in Upgraded : Issue(t, upgrade(s))
       \/ \E x \in Contexts : Issue(t, alloc_context(x)) \/ Issue(t, free_context(x))
       \/ \E m \in 1..MaxMaps : Issue(t, create(m)) \/ Issue(t, destroy(m))
  BY <1>2, <1>9 DEF ChildCalls
<1>. QED
  BY <1>1, <1>3, <1>4, <1>5, <1>7, <1>8, <1>10

\* A call that begins changes no field; its own fields join the overlapping ones.
LEMMA IssueKeeps ==
  ASSUME SnapshotInv, NEW t \in Threads, ChildCalls(t)
  PROVE  SnapshotInv'
<1>. USE DEF SnapshotInv
<1>1. PICK c : /\ Issue(t, c) /\ IsWhole(c) /\ c # <<>>
               /\ \A f \in Sighs : Given(c, f) \subseteq contexts
  BY ChildIssues
<1>2. /\ ~paused /\ call[t] = <<>>
      /\ call' = [call EXCEPT ![t] = c]
      /\ overlapped' = IF at = 0 THEN {} ELSE overlapped \cup Touches(c)
      /\ UNCHANGED <<hot, contexts, maps, destroyed, cold, i_contexts, visited, i_maps,
                     parent, parentMaps, serving, paused, at, rounds, freed>>
  BY <1>1 DEF Issue, hotVars, coldVars, parentVars, monitorVars
<1>3. /\ call'[t] = c /\ \A u \in Threads \ {t} : call'[u] = call[u]
      /\ call' = [u \in Threads |-> call'[u]]
  BY <1>2 DEF OptTypeOK
<1>4. OptTypeOK'
  BY <1>2, <1>3 DEF OptTypeOK
<1>5. CallsAreWhole'
  <2>1. ASSUME NEW u PROVE /\ (IsWhole(u))' <=> IsWhole(u)
                           /\ (IsBegun(u))' <=> IsBegun(u)
    BY <1>2 DEF IsWhole, IsBegun
  <2>2. serving # t
    BY <1>2, OptionalAssumption DEF CallsAreWhole
  <2>3. ASSUME NEW u \in Threads
        PROVE  \E b : b = call'[u] /\ (b = <<>> \/ IsWhole(b)' \/ (u = serving /\ IsBegun(b)'))
    BY <1>1, <1>3, <2>1 DEF CallsAreWhole
  <2>4. serving' # NoThread => call'[serving'] # <<>>
    BY <1>2, <1>3, <2>2 DEF CallsAreWhole, OptTypeOK
  <2>. QED
    BY <1>2, <2>3, <2>4 DEF CallsAreWhole
<1>6. Outstanding' = Outstanding \cup Touches(c)
  <2>1. Outstanding' = UNION {Touches(call'[u]) : u \in Threads}
    BY DEF Outstanding, Touches
  <2>2. Touches(<<>>) = {}
    BY DEF Touches
  <2>. QED
    BY <1>2, <1>3, <2>1, <2>2 DEF Outstanding
<1>7. IdleFieldsAgree'
  BY <1>2, <1>6 DEF IdleFieldsAgree, Agrees
<1>8. OverlapIsTracked'
  BY <1>2, <1>6 DEF OverlapIsTracked
<1>9. at # 0 => overlapped \subseteq overlapped'
  BY <1>2
<1>10. CopiesStand'
  BY <1>2, <1>9 DEF CopiesStand, OptTypeOK
<1>11. HandlersAreKnown'
  <2>. SUFFICES ASSUME NEW f \in Sighs
                PROVE  /\ (hot[f] \in Known)'
                       /\ (\A u \in Threads : Given(call[u], f) \subseteq Known)'
                       /\ (at > 1 =>
                             /\ Settled(f) => hot[f] \in Snapped
                             /\ paused => \A u \in Threads : Given(call[u], f) \subseteq Snapped
                             /\ \A i \in 1..at - 1 :
                                  Script[i] = f /\ Settled(f) => cold[f] \in Snapped)'
    BY DEF HandlersAreKnown
  <2>1. Known' = Known /\ Snapped' = Snapped
    BY <1>2 DEF Known, Snapped
  <2>2. at # 0 => (Settled(f)' => Settled(f))
    BY <1>2, <1>9 DEF Settled
  <2>3. ASSUME NEW u \in Threads PROVE Given(call[u], f)' \subseteq Known
    <3>1. Given(call[u], f)' = Given(call'[u], f)
      BY DEF Given
    <3>. QED
      BY <1>1, <1>3, <3>1 DEF HandlersAreKnown, Known
  <2>. QED
    BY <1>2, <2>1, <2>2, <2>3 DEF HandlersAreKnown, OptTypeOK
<1>12. MapsAreVisited'
  <2>1. at # 0 => Overlapping \subseteq Overlapping'
    BY <1>9 DEF Overlapping
  <2>. QED
    BY <1>2, <2>1 DEF MapsAreVisited, OptTypeOK
<1>. QED
  BY <1>4, <1>5, <1>7, <1>8, <1>10, <1>11, <1>12

-----------------------------------------------------------------------------
(* The entrypoint. *)

\* A call that is accepted is whole.
LEMMA AcceptKeeps ==
  ASSUME SnapshotInv, NEW t \in Threads, Accept(t)
  PROVE  SnapshotInv'
<1>. USE DEF SnapshotInv
<1>1. /\ serving = NoThread /\ call[t] # <<>> /\ serving' = t
      /\ UNCHANGED <<hot, contexts, maps, destroyed, cold, i_contexts, visited, i_maps,
                     parent, parentMaps, call, issued, paused, at, rounds, overlapped, freed>>
  BY DEF Accept, hotVars, coldVars, parentVars, monitorVars
<1>2. OptTypeOK'
  BY <1>1 DEF OptTypeOK
<1>3. CallsAreWhole'
  <2>1. ASSUME NEW c PROVE IsWhole(c)' <=> IsWhole(c)
    BY DEF IsWhole
  <2>2. ASSUME NEW u \in Threads
        PROVE  \E b : b = call'[u] /\ (b = <<>> \/ IsWhole(b)')
    BY <1>1, <2>1, OptionalAssumption DEF CallsAreWhole
  <2>. QED
    BY <1>1, <2>2 DEF CallsAreWhole
<1>4. Outstanding' = Outstanding /\ Overlapping' = Overlapping
  BY <1>1 DEF Outstanding, Touches, Overlapping
<1>5. IdleFieldsAgree' /\ OverlapIsTracked' /\ CopiesStand' /\ MapsAreVisited'
  BY <1>1, <1>4 DEF IdleFieldsAgree, Agrees, OverlapIsTracked, CopiesStand, MapsAreVisited
<1>6. HandlersAreKnown'
  BY <1>1 DEF HandlersAreKnown, Known, Snapped, Settled, Given
<1>. QED
  BY <1>2, <1>3, <1>5, <1>6

\* A step of the call that is served.
CallStep ==
  StoreField \/ ForwardCall \/ UpdateContexts \/ CreateAtParent \/ InsertMap \/ DestroyMap

\* What a call leaves to do sets no handler, and what it leaves alone is as before.
LEMMA CallStepEffect ==
  ASSUME OptTypeOK, CallsAreWhole, IdleFieldsAgree, CallStep
  PROVE  /\ \E op : Step(op)
         /\ DOMAIN hot' = Fields /\ DOMAIN parent' = Fields
         /\ \A f \in Fields \ Touches(call[serving]) : hot'[f] = hot[f] /\ parent'[f] = parent[f]
         /\ \A f \in Fields : f[2] = "upgrade_args" => parent'[f] = parent[f]
         /\ \E r : /\ r = call'[serving]
                   /\ r = <<>> \/ IsBegun(r)'
                   /\ \A f \in Fields \cap Touches(call[serving]) :
                        f \in Touches(r) \/ Agrees(f)'
         /\ \A f \in Sighs : hot'[f] = hot[f] \/ hot'[f] \in Given(call[serving], f)
<1>1. CASE StoreField
  <2>1. PICK f, v, r :
           /\ f \in Fields /\ Head(call[serving]) = Store(f, v) /\ f \in Touches(call[serving])
           /\ hot' = [hot EXCEPT ![f] = v] /\ parent' = parent
           /\ r = call'[serving]
           /\ \/ r = <<>> /\ Touches(call[serving]) = {f} /\ Agrees(f)'
              \/ IsBegun(r)' /\ Touches(r) = Touches(call[serving])
    BY <1>1, StoreEffect
  <2>2. \A g \in Sighs : hot'[g] = hot[g] \/ hot'[g] \in Given(call[serving], g)
    <3>1. serving \in Threads /\ call[serving] # <<>>
      BY <1>1, OptionalAssumption DEF StoreField, Step, OptTypeOK, CallsAreWhole
    <3>2. f \in Sighs => Given(call[serving], f) = {v}
      BY <2>1, <3>1 DEF Given, Store, Only
    <3>. QED
      BY <2>1, <3>2, FieldsAre DEF OptTypeOK
  <2>3. Step("store")
    BY <1>1 DEF StoreField
  <2>4. DOMAIN hot = Fields /\ DOMAIN parent = Fields
    BY DEF OptTypeOK
  <2>5. /\ DOMAIN hot' = Fields /\ DOMAIN parent' = Fields
        /\ \A g \in Fields \ {f} : hot'[g] = hot[g] /\ parent'[g] = parent[g]
    BY <2>1, <2>4
  <2>6. /\ r = call'[serving]
        /\ r = <<>> \/ IsBegun(r)'
        /\ \A g \in Fields \cap Touches(call[serving]) : g \in Touches(r) \/ Agrees(g)'
    BY <2>1
  <2>7. \A g \in Fields : g[2] = "upgrade_args" => parent'[g] = parent[g]
    BY <2>1
  <2>8. f \in Touches(call[serving])
    BY <2>1
  <2>. QED
    BY <2>2, <2>3, <2>5, <2>6, <2>7, <2>8
<1>2. CASE ForwardCall
  <2>1. PICK r : /\ r = call'[serving]
                 /\ \/ r = <<>> /\ \A f \in Fields \cap Touches(call[serving]) : Agrees(f)'
                    \/ IsBegun(r)' /\ Touches(r) = Touches(call[serving])
    BY <1>2, ForwardEffect
  <2>2. Step("forward")
    BY <1>2 DEF ForwardCall
  <2>3. /\ hot' = hot /\ DOMAIN parent' = Fields /\ DOMAIN hot = Fields
        /\ \A f \in Fields \ Touches(call[serving]) : parent'[f] = parent[f]
        /\ \A f \in Fields : f[2] = "upgrade_args" => parent'[f] = parent[f]
    BY <1>2, ForwardEffect DEF OptTypeOK
  <2>4. /\ r = call'[serving]
        /\ r = <<>> \/ IsBegun(r)'
        /\ \A g \in Fields \cap Touches(call[serving]) : g \in Touches(r) \/ Agrees(g)'
    BY <2>1
  <2>. QED
    BY <2>2, <2>3, <2>4
<1>3. CASE UpdateContexts \/ CreateAtParent \/ InsertMap \/ DestroyMap
  <2>1. (\E op \in ListOps : Step(op)) /\ hot' = hot /\ parent' = parent
    BY <1>3 DEF UpdateContexts, CreateAtParent, InsertMap, DestroyMap, ListOps, hotVars, parentVars
  <2>2. PICK op \in ListOps : Step(op)
    BY <2>1
  <2>3. PICK r : /\ r = call'[serving]
                 /\ r = <<>> \/ \E m \in 1..MaxMaps : r = <<Do("insert", m)>>
                 /\ Fields \cap Touches(call[serving]) = {}
    BY <2>2, ListEffect
  <2>4. r = <<>> \/ IsBegun(r)'
    BY <2>3 DEF IsBegun
  <2>5. DOMAIN hot = Fields /\ DOMAIN parent = Fields
    BY DEF OptTypeOK
  <2>. QED
    BY <2>1, <2>2, <2>3, <2>4, <2>5
<1>. QED
  BY <1>1, <1>2, <1>3 DEF CallStep

\* The shapes that a call has once it has begun.
Rest(c) ==
  \/ c = <<>>
  \/ \E us \in Nat, p \in BOOLEAN : c = <<Store(Periodic, p), Forward(Setting(us, p))>>
  \/ \E values : c = <<Forward(values)>>
  \/ \E d \in Dataspaces : c = <<Store(Dataspace, d)>>
  \/ \E m \in 1..MaxMaps : c = <<Do("insert", m)>>

\* A call stores a handler with its first step, if at all.
LEMMA RestSetsNothing ==
  ASSUME NEW c, Rest(c), NEW f \in Sighs
  PROVE  Given(c, f) = {}
<1>1. CASE c = <<>>
  BY <1>1 DEF Given
<1>2. ASSUME NEW us, NEW p, c = <<Store(Periodic, p), Forward(Setting(us, p))>>
      PROVE  Given(c, f) = {}
  <2>1. Head(c) = Store(Periodic, p)
    BY <1>2, PeriodicSteps
  <2>. QED
    BY <2>1, FieldsAre DEF Given, Store, Only, Periodic
<1>3. ASSUME NEW values, c = <<Forward(values)>>
      PROVE  Given(c, f) = {}
  <2>1. Head(c) = Forward(values)
    BY <1>3, OneStep
  <2>. QED
    BY <2>1 DEF Given, Forward
<1>4. ASSUME NEW d, c = <<Store(Dataspace, d)>>
      PROVE  Given(c, f) = {}
  <2>1. Head(c) = Store(Dataspace, d)
    BY <1>4, OneStep
  <2>. QED
    BY <2>1, FieldsAre DEF Given, Store, Only, Dataspace
<1>5. ASSUME NEW m, c = <<Do("insert", m)>>
      PROVE  Given(c, f) = {}
  <2>1. Head(c) = Do("insert", m)
    BY <1>5, OneStep
  <2>. QED
    BY <2>1 DEF Given, Do
<1>. QED
  BY <1>1, <1>2, <1>3, <1>4, <1>5 DEF Rest

\* What a step does to the contexts and the maps.
LEMMA ListsAfterStep ==
  ASSUME OptTypeOK, CallsAreWhole, CallStep
  PROVE  /\ contexts' \subseteq Contexts
         /\ Known \subseteq Known'
         /\ freed \subseteq freed'
         /\ \A m \in maps' \ maps : m \in 1..MaxMaps /\ <<"insert", m>> \in Touches(call[serving])
<1>1. CASE StoreField \/ ForwardCall
  BY <1>1 DEF StoreField, ForwardCall, hotVars, OptTypeOK, Known
<1>2. CASE UpdateContexts
  <2>1. Operand \in Contexts /\ maps' = maps
    BY <1>2, ListEffect DEF UpdateContexts, ListOps
  <2>. QED
    BY <1>2, <2>1 DEF UpdateContexts, OptTypeOK, Known
<1>3. CASE InsertMap
  <2>1. Operand \in 1..MaxMaps /\ <<"insert", Operand>> \in Touches(call[serving])
    BY <1>3, ListEffect DEF InsertMap, ListOps
  <2>. QED
    BY <1>3, <2>1 DEF InsertMap, OptTypeOK, Known
<1>4. CASE CreateAtParent \/ DestroyMap
  BY <1>4 DEF CreateAtParent, DestroyMap, hotVars, OptTypeOK, Known
<1>. QED
  BY <1>1, <1>2, <1>3, <1>4 DEF CallStep

\* A step of the served call.
LEMMA CallStepKeeps ==
  ASSUME SnapshotInv, CallStep
  PROVE  SnapshotInv'
<1>. USE DEF SnapshotInv
<1>. DEFINE t == serving
<1>1. PICK op : Step(op)
  BY CallStepEffect
<1>2. /\ t \in Threads
      /\ call' = [u \in Threads |-> call'[u]]
      /\ \A u \in Threads \ {t} : call'[u] = call[u] /\ (call[u] = <<>> \/ IsWhole(call[u]))
      /\ serving' \in {t, NoThread} /\ (serving' = t <=> call'[t] # <<>>)
      /\ Touches(call'[t]) \subseteq Touches(call[t])
      /\ Outstanding' \subseteq Outstanding
      /\ Touches(call[t]) \subseteq Outstanding
      /\ \A f \in Outstanding \ Outstanding' : f \in Touches(call[t]) \ Touches(call'[t])
  BY <1>1, StepEffect
<1>3. PICK r : /\ r = call'[t]
               /\ r = <<>> \/ IsBegun(r)'
               /\ \A f \in Fields \cap Touches(call[t]) : f \in Touches(r) \/ Agrees(f)'
  BY CallStepEffect
<1>4. /\ DOMAIN hot' = Fields /\ DOMAIN parent' = Fields
      /\ \A f \in Fields \ Touches(call[t]) : hot'[f] = hot[f] /\ parent'[f] = parent[f]
      /\ \A f \in Fields : f[2] = "upgrade_args" => parent'[f] = parent[f]
      /\ \A f \in Sighs : hot'[f] = hot[f] \/ hot'[f] \in Given(call[t], f)
  BY CallStepEffect
<1>5. UNCHANGED <<cold, i_contexts, visited, i_maps, paused, at, rounds, overlapped>>
  BY <1>1 DEF Step, coldVars, monitorVars
<1>6. /\ contexts' \subseteq Contexts /\ Known \subseteq Known' /\ freed \subseteq freed'
      /\ \A m \in maps' \ maps : m \in 1..MaxMaps /\ <<"insert", m>> \in Touches(call[t])
  BY ListsAfterStep
<1>. HIDE DEF t
<1>7. OptTypeOK'
  <2>1. serving' \in Threads \cup {NoThread}
    BY <1>2
  <2>2. maps' \subseteq 1..MaxMaps
    BY <1>6 DEF OptTypeOK
  <2>. QED
    BY <1>2, <1>4, <1>5, <1>6, <2>1, <2>2 DEF OptTypeOK
<1>8. CallsAreWhole'
  <2>1. ASSUME NEW c PROVE IsWhole(c)' <=> IsWhole(c)
    BY DEF IsWhole
  <2>2. ASSUME NEW u \in Threads
        PROVE  \E b : b = call'[u] /\ (b = <<>> \/ IsWhole(b)' \/ (u = serving' /\ IsBegun(b)'))
    <3>1. CASE u # t
      BY <1>2, <2>1, <3>1
    <3>2. CASE u = t /\ r # <<>>
      <4>1. serving' = t
        BY <1>2, <1>3, <3>2
      <4>. QED
        BY <1>3, <3>2, <4>1
    <3>3. CASE u = t /\ r = <<>>
      BY <1>3, <3>3
    <3>. QED
      BY <3>1, <3>2, <3>3
  <2>3. serving' # NoThread => call'[serving'] # <<>>
    BY <1>2
  <2>. QED
    BY <2>2, <2>3 DEF CallsAreWhole
<1>9. IdleFieldsAgree'
  <2>1. ASSUME NEW f \in Fields, f \notin Outstanding'
        PROVE  Agrees(f)'
    <3>1. CASE f \in Touches(call[t])
      <4>1. f \notin Touches(r)
        BY <1>2, <1>3, <2>1, <3>1
      <4>. QED
        BY <1>3, <3>1, <4>1
    <3>2. CASE f \notin Touches(call[t])
      <4>1. f \notin Outstanding
        BY <1>2, <2>1, <3>2
      <4>. QED
        BY <1>4, <3>2, <4>1 DEF IdleFieldsAgree, Agrees
    <3>. QED
      BY <3>1, <3>2
  <2>2. \A f \in Fields : f[2] = "upgrade_args" => parent'[f] = Garbage
    BY <1>4 DEF IdleFieldsAgree
  <2>. QED
    BY <2>1, <2>2 DEF IdleFieldsAgree
<1>10. OverlapIsTracked'
  BY <1>2, <1>5 DEF OverlapIsTracked
<1>11. at # 0 => Touches(call[t]) \subseteq overlapped
  BY <1>2 DEF OverlapIsTracked
<1>12. CopiesStand'
  BY <1>4, <1>5, <1>11 DEF CopiesStand, OptTypeOK
<1>13. HandlersAreKnown'
  <2>. SUFFICES ASSUME NEW f \in Sighs
                PROVE  /\ (hot[f] \in Known)'
                       /\ (\A u \in Threads : Given(call[u], f) \subseteq Known)'
                       /\ (at > 1 =>
                             /\ Settled(f) => hot[f] \in Snapped
                             /\ paused => \A u \in Threads : Given(call[u], f) \subseteq Snapped
                             /\ \A i \in 1..at - 1 :
                                  Script[i] = f /\ Settled(f) => cold[f] \in Snapped)'
    BY DEF HandlersAreKnown
  <2>1. Snapped \subseteq Snapped' /\ Settled(f)' = Settled(f)
    BY <1>5, <1>6 DEF Snapped, Settled
  <2>2. Given(r, f)' = {}
    <3>1. Rest(r)
      BY <1>3 DEF IsBegun, Rest
    <3>2. Given(r, f)' = Given(r, f)
      BY DEF Given
    <3>. QED
      BY <3>1, <3>2, RestSetsNothing
  <2>3. ASSUME NEW u \in Threads PROVE Given(call[u], f)' \subseteq Given(call[u], f)
    <3>1. Given(call[u], f)' = Given(call'[u], f)
      BY DEF Given
    <3>2. Given(r, f)' = Given(r, f)
      BY DEF Given
    <3>. QED
      BY <1>2, <1>3, <2>2, <3>1, <3>2
  <2>4. hot'[f] \in Known
    BY <1>2, <1>4 DEF HandlersAreKnown
  <2>5. at > 1 /\ Settled(f) => hot'[f] \in Snapped
    <3>. SUFFICES ASSUME at > 1, Settled(f) PROVE hot'[f] \in Snapped
      OBVIOUS
    <3>1. CASE paused
      BY <1>2, <1>4, <3>1 DEF HandlersAreKnown
    <3>2. CASE f \notin overlapped
      BY <1>4, <1>11, <3>2, FieldsAre DEF HandlersAreKnown, OptTypeOK
    <3>. QED
      BY <3>1, <3>2 DEF Settled
  <2>. QED
    BY <1>5, <1>6, <2>1, <2>3, <2>4, <2>5 DEF HandlersAreKnown
<1>14. MapsAreVisited'
  <2>1. at > 4 => maps' \subseteq maps \cup Overlapping
    BY <1>6, <1>11 DEF Overlapping, OptTypeOK
  <2>2. Overlapping' = Overlapping
    BY <1>5 DEF Overlapping
  <2>. QED
    BY <1>5, <2>1, <2>2 DEF MapsAreVisited, OptTypeOK
<1>. QED
  BY <1>7, <1>8, <1>9, <1>10, <1>12, <1>13, <1>14

-----------------------------------------------------------------------------
(* The monitor. *)

\* checkpoint() begins: nothing is copied yet, and what is outstanding overlaps.
LEMMA BeginKeeps ==
  ASSUME SnapshotInv, NEW pause \in BOOLEAN, Begin(pause)
  PROVE  SnapshotInv'
<1>. USE DEF SnapshotInv
<1>1. /\ at = 0 /\ at' = 1 /\ overlapped' = Outstanding
      /\ UNCHANGED <<hot, contexts, maps, destroyed, cold, i_contexts, i_maps, parent,
                     parentMaps, call, serving, freed>>
  BY DEF Begin, hotVars, parentVars, callVars
<1>2. OptTypeOK'
  BY <1>1, ScriptPlaces DEF OptTypeOK
<1>3. CallsAreWhole'
  <2>1. ASSUME NEW c PROVE (IsWhole(c)' <=> IsWhole(c)) /\ (IsBegun(c)' <=> IsBegun(c))
    BY <1>1 DEF IsWhole, IsBegun
  <2>2. ASSUME NEW u \in Threads
        PROVE  \E b : b = call'[u] /\ (b = <<>> \/ IsWhole(b)' \/ (u = serving /\ IsBegun(b)'))
    BY <1>1, <2>1 DEF CallsAreWhole
  <2>. QED
    BY <1>1, <2>2 DEF CallsAreWhole
<1>4. Outstanding' = Outstanding
  BY <1>1 DEF Outstanding, Touches
<1>5. IdleFieldsAgree' /\ OverlapIsTracked' /\ CopiesStand' /\ MapsAreVisited'
  BY <1>1, <1>4 DEF IdleFieldsAgree, Agrees, OverlapIsTracked, CopiesStand, MapsAreVisited
<1>6. HandlersAreKnown'
  BY <1>1 DEF HandlersAreKnown, Known, Snapped, Settled, Given
<1>. QED
  BY <1>2, <1>3, <1>5, <1>6

\* checkpoint() has returned, and its caller resumes the child.
LEMMA EndKeeps ==
  ASSUME SnapshotInv, End
  PROVE  SnapshotInv'
<1>. USE DEF SnapshotInv
<1>1. /\ at' = 0
      /\ UNCHANGED <<hot, contexts, maps, destroyed, cold, i_contexts, visited, i_maps, parent,
                     parentMaps, call, serving, freed>>
  BY DEF End, hotVars, coldVars, parentVars, callVars
<1>2. OptTypeOK'
  BY <1>1, ScriptPlaces DEF OptTypeOK
<1>3. CallsAreWhole'
  <2>1. ASSUME NEW c PROVE (IsWhole(c)' <=> IsWhole(c)) /\ (IsBegun(c)' <=> IsBegun(c))
    BY <1>1 DEF IsWhole, IsBegun
  <2>2. ASSUME NEW u \in Threads
        PROVE  \E b : b = call'[u] /\ (b = <<>> \/ IsWhole(b)' \/ (u = serving /\ IsBegun(b)'))
    BY <1>1, <2>1 DEF CallsAreWhole
  <2>. QED
    BY <1>1, <2>2 DEF CallsAreWhole
<1>4. Outstanding' = Outstanding
  BY <1>1 DEF Outstanding, Touches
<1>5. IdleFieldsAgree' /\ OverlapIsTracked' /\ CopiesStand' /\ MapsAreVisited'
  BY <1>1, <1>4 DEF IdleFieldsAgree, Agrees, OverlapIsTracked, CopiesStand, MapsAreVisited
<1>6. HandlersAreKnown'
  BY <1>1 DEF HandlersAreKnown, Known, Snapped, Settled, Given
<1>. QED
  BY <1>2, <1>3, <1>5, <1>6

\* What all steps of the monitor's script leave alone.
LEMMA MonitorFrame ==
  ASSUME SnapshotInv, NEW here, MonitorAt(here), UNCHANGED <<hot, contexts>>,
         DOMAIN cold' = Fields, maps' \subseteq maps
  PROVE  /\ at \in 1..13 /\ Script[at] = here /\ at' = at + 1
         /\ UNCHANGED <<parent, call, serving, paused, overlapped, freed>>
         /\ OptTypeOK' /\ CallsAreWhole' /\ IdleFieldsAgree' /\ OverlapIsTracked'
         /\ Overlapping' = Overlapping
         /\ \A f \in Sighs : /\ Settled(f)' = Settled(f) /\ hot'[f] \in Known'
                             /\ \A t \in Threads : /\ Given(call[t], f)' = Given(call[t], f)
                                                   /\ Given(call[t], f) \subseteq Known'
         /\ Known' = Known
<1>. USE DEF SnapshotInv
<1>1. DOMAIN Script = 1..13 /\ Len(Script) = 13
  BY ScriptPlaces DEF Script, RmScript, RomScript, LogScript, TimerScript
<1>2. /\ at \in 1..13 /\ Script[at] = here /\ at' = at + 1
      /\ UNCHANGED <<hot, contexts, parent, call, serving, paused, overlapped, freed>>
  BY <1>1 DEF MonitorAt, parentVars, callVars
<1>3. OptTypeOK'
  <2>1. at' \in 0..Len(Script) + 1
    BY <1>1, <1>2
  <2>. QED
    BY <1>2, <2>1 DEF OptTypeOK
<1>4. CallsAreWhole'
  <2>1. ASSUME NEW c PROVE (IsWhole(c)' <=> IsWhole(c)) /\ (IsBegun(c)' <=> IsBegun(c))
    BY <1>2 DEF IsWhole, IsBegun
  <2>2. ASSUME NEW u \in Threads
        PROVE  \E b : b = call'[u] /\ (b = <<>> \/ IsWhole(b)' \/ (u = serving /\ IsBegun(b)'))
    BY <1>2, <2>1 DEF CallsAreWhole
  <2>. QED
    BY <1>2, <2>2 DEF CallsAreWhole
<1>5. Outstanding' = Outstanding /\ Overlapping' = Overlapping
  BY <1>2 DEF Outstanding, Touches, Overlapping
<1>6. IdleFieldsAgree' /\ OverlapIsTracked'
  BY <1>2, <1>5 DEF IdleFieldsAgree, Agrees, OverlapIsTracked
<1>7. Known' = Known
  BY <1>2 DEF Known
<1>8. ASSUME NEW f \in Sighs
      PROVE  /\ Settled(f)' = Settled(f) /\ hot'[f] \in Known'
             /\ \A t \in Threads : /\ Given(call[t], f)' = Given(call[t], f)
                                   /\ Given(call[t], f) \subseteq Known'
  BY <1>2, <1>7 DEF HandlersAreKnown, Settled, Given
<1>. QED
  BY <1>2, <1>3, <1>4, <1>5, <1>6, <1>7, <1>8

\* A field is copied: it is the hot one at this time.
LEMMA CopyFieldKeeps ==
  ASSUME SnapshotInv, CopyField
  PROVE  SnapshotInv'
<1>1. PICK f \in Fields : /\ MonitorAt(f)
                          /\ cold' = [cold EXCEPT ![f] = hot[f]]
                          /\ UNCHANGED <<hot, contexts, maps, destroyed, i_contexts>>
                          /\ UNCHANGED <<visited, i_maps>>
  BY DEF CopyField, hotVars
<1>2. DOMAIN cold' = Fields /\ cold'[f] = hot[f] /\ \A g \in Fields \ {f} : cold'[g] = cold[g]
  BY <1>1 DEF SnapshotInv, OptTypeOK
<1>3. /\ at \in 1..13 /\ Script[at] = f /\ at' = at + 1
      /\ UNCHANGED <<parent, call, serving, paused, overlapped, freed>>
      /\ OptTypeOK' /\ CallsAreWhole' /\ IdleFieldsAgree' /\ OverlapIsTracked'
      /\ Overlapping' = Overlapping
      /\ \A g \in Sighs : /\ Settled(g)' = Settled(g) /\ hot'[g] \in Known'
                          /\ \A t \in Threads : /\ Given(call[t], g)' = Given(call[t], g)
                                                /\ Given(call[t], g) \subseteq Known'
  BY <1>1, <1>2, MonitorFrame
<1>4. at \notin {1, 3, 4, 5}
  <2>1. <<"pd", "contexts">> \notin Fields /\ <<"rm", "purge">> \notin Fields
        /\ <<"rm", "visit">> \notin Fields /\ <<"rm", "publish">> \notin Fields
    BY FieldsAre DEF Timeout, Periodic, Dataspace
  <2>. QED
    BY <1>3, <2>1, ScriptPlaces
<1>5. CopiesStand'
  <2>. SUFFICES ASSUME NEW i \in 1..at' - 1, Script[i] \in Fields \ overlapped
                PROVE  cold'[Script[i]] = hot[Script[i]]
    BY <1>1, <1>3 DEF CopiesStand
  <2>1. CASE Script[i] = f
    BY <1>2, <2>1
  <2>2. CASE Script[i] # f
    <3>1. i \in 1..at - 1
      BY <1>3, <2>2
    <3>. QED
      BY <1>2, <2>2, <3>1 DEF SnapshotInv, CopiesStand
  <2>. QED
    BY <2>1, <2>2
<1>6. HandlersAreKnown'
  <2>. SUFFICES ASSUME NEW g \in Sighs
                PROVE  /\ hot'[g] \in Known'
                       /\ \A u \in Threads : Given(call[u], g)' \subseteq Known'
                       /\ at' > 1 =>
                             /\ Settled(g)' => hot'[g] \in Snapped'
                             /\ paused' => \A u \in Threads : Given(call[u], g)' \subseteq Snapped'
                             /\ \A i \in 1..at' - 1 :
                                  Script[i] = g /\ Settled(g)' => cold'[g] \in Snapped'
    BY DEF HandlersAreKnown
  <2>1. at > 1 /\ Snapped' = Snapped
    BY <1>1, <1>3, <1>4 DEF Snapped
  <2>2. Settled(g) => hot[g] \in Snapped
    BY <2>1 DEF SnapshotInv, HandlersAreKnown
  <2>3. paused => \A u \in Threads : Given(call[u], g) \subseteq Snapped
    BY <2>1 DEF SnapshotInv, HandlersAreKnown
  <2>4. ASSUME NEW i \in 1..at' - 1, Script[i] = g, Settled(g)
        PROVE  cold'[g] \in Snapped
    <3>1. CASE g = f
      BY <1>2, <2>2, <2>4, <3>1
    <3>2. CASE g # f
      <4>1. i \in 1..at - 1 /\ g \in Fields \ {f}
        BY <1>3, <2>4, <3>2, FieldsAre
      <4>2. cold[g] \in Snapped
        BY <2>1, <2>4, <4>1 DEF SnapshotInv, HandlersAreKnown
      <4>. QED
        BY <1>2, <4>1, <4>2
    <3>. QED
      BY <3>1, <3>2
  <2>. QED
    BY <1>1, <1>3, <2>1, <2>2, <2>3, <2>4
<1>7. MapsAreVisited'
  <2>1. at > 5 <=> at' > 5
    BY <1>3, <1>4
  <2>2. at > 4 <=> at' > 4
    BY <1>3, <1>4
  <2>. QED
    BY <1>1, <1>3, <2>1, <2>2 DEF SnapshotInv, MapsAreVisited
<1>. QED
  BY <1>3, <1>5, <1>6, <1>7 DEF SnapshotInv

\* A step of the script that copies no field.
LEMMA ListStepKeeps ==
  ASSUME SnapshotInv, TakeContexts \/ PurgeMaps \/ VisitMaps \/ PublishMaps
  PROVE  SnapshotInv'
<1>1. PICK here \in {<<"pd", "contexts">>, <<"rm", "purge">>,
                     <<"rm", "visit">>, <<"rm", "publish">>} :
        /\ MonitorAt(here)
        /\ UNCHANGED <<hot, contexts, cold>>
        /\ here = <<"pd", "contexts">> =>
             i_contexts' = contexts /\ UNCHANGED <<maps, visited, i_maps>>
        /\ here = <<"rm", "purge">> =>
             maps' \subseteq maps /\ UNCHANGED <<i_contexts, visited, i_maps>>
        /\ here = <<"rm", "visit">> =>
             visited' = maps /\ UNCHANGED <<maps, i_contexts, i_maps>>
        /\ here = <<"rm", "publish">> =>
             i_maps' = maps /\ UNCHANGED <<maps, i_contexts, visited>>
  <2>1. CASE TakeContexts
    BY <2>1 DEF TakeContexts, hotVars
  <2>2. CASE PurgeMaps
    BY <2>2 DEF PurgeMaps, coldVars
  <2>3. CASE VisitMaps
    BY <2>3 DEF VisitMaps, hotVars
  <2>4. CASE PublishMaps
    BY <2>4 DEF PublishMaps, hotVars
  <2>. QED
    BY <2>1, <2>2, <2>3, <2>4
<1>2. DOMAIN cold' = Fields /\ maps' \subseteq maps
  BY <1>1 DEF SnapshotInv, OptTypeOK
<1>3. /\ at \in 1..13 /\ Script[at] = here /\ at' = at + 1
      /\ UNCHANGED <<parent, call, serving, paused, overlapped, freed>>
      /\ OptTypeOK' /\ CallsAreWhole' /\ IdleFieldsAgree' /\ OverlapIsTracked'
      /\ Overlapping' = Overlapping
      /\ \A g \in Sighs : /\ Settled(g)' = Settled(g) /\ hot'[g] \in Known'
                          /\ \A t \in Threads : /\ Given(call[t], g)' = Given(call[t], g)
                                                /\ Given(call[t], g) \subseteq Known'
      /\ Known' = Known
  BY <1>1, <1>2, MonitorFrame
<1>4. /\ here \notin Fields
      /\ here = <<"pd", "contexts">> <=> at = 1
      /\ here = <<"rm", "purge">> <=> at = 3
      /\ here = <<"rm", "visit">> <=> at = 4
      /\ here = <<"rm", "publish">> <=> at = 5
  <2>1. here \notin Fields
    BY <1>1, FieldsAre DEF Timeout, Periodic, Dataspace
  <2>2. at \in {1, 3, 4, 5}
    BY <1>3, <2>1, ScriptPlaces, FieldsAre DEF Timeout, Periodic, Dataspace
  <2>. QED
    BY <1>3, <2>1, <2>2, ScriptPlaces
<1>5. CopiesStand'
  <2>. SUFFICES ASSUME NEW i \in 1..at' - 1, Script[i] \in Fields \ overlapped
                PROVE  cold[Script[i]] = hot[Script[i]]
    BY <1>1, <1>3 DEF CopiesStand
  <2>1. i \in 1..at - 1
    BY <1>3, <1>4
  <2>. QED
    BY <2>1 DEF SnapshotInv, CopiesStand
<1>6. HandlersAreKnown'
  <2>. SUFFICES ASSUME NEW g \in Sighs
                PROVE  /\ hot'[g] \in Known'
                       /\ \A u \in Threads : Given(call[u], g)' \subseteq Known'
                       /\ at' > 1 =>
                             /\ Settled(g)' => hot'[g] \in Snapped'
                             /\ paused' => \A u \in Threads : Given(call[u], g)' \subseteq Snapped'
                             /\ \A i \in 1..at' - 1 :
                                  Script[i] = g /\ Settled(g)' => cold'[g] \in Snapped'
    BY DEF HandlersAreKnown
  <2>1. g \in Fields
    BY FieldsAre
  <2>2. CASE at = 1
    <3>1. Snapped' = Known'
      BY <1>1, <1>3, <1>4, <2>2 DEF Known, Snapped
    <3>2. ASSUME NEW i \in 1..at' - 1 PROVE Script[i] # g
      BY <1>3, <1>4, <2>1, <2>2
    <3>. QED
      BY <1>3, <3>1, <3>2
  <2>3. CASE at > 1
    <3>1. Snapped' = Snapped
      BY <1>1, <1>3, <1>4, <2>3 DEF Snapped
    <3>2. ASSUME NEW i \in 1..at' - 1, Script[i] = g, Settled(g) PROVE cold[g] \in Snapped
      <4>1. i \in 1..at - 1
        BY <1>3, <1>4, <2>1, <3>2
      <4>. QED
        BY <2>3, <3>2, <4>1 DEF SnapshotInv, HandlersAreKnown
    <3>3. /\ Settled(g) => hot[g] \in Snapped
          /\ paused => \A u \in Threads : Given(call[u], g) \subseteq Snapped
      BY <2>3 DEF SnapshotInv, HandlersAreKnown
    <3>. QED
      BY <1>1, <1>3, <3>1, <3>2, <3>3
  <2>. QED
    BY <1>3, <2>2, <2>3
<1>7. MapsAreVisited'
  <2>1. at \in {1, 3, 4, 5}
    BY <1>1, <1>4
  <2>2. at \in {1, 3} => at' <= 4
    BY <1>3
  <2>3. CASE at = 4
    BY <1>1, <1>3, <1>4, <2>3 DEF MapsAreVisited
  <2>4. CASE at = 5
    <3>1. maps \subseteq visited \cup Overlapping
      BY <2>4 DEF SnapshotInv, MapsAreVisited
    <3>. QED
      BY <1>1, <1>3, <1>4, <2>4, <3>1 DEF MapsAreVisited
  <2>. QED
    BY <1>3, <2>1, <2>2, <2>3, <2>4 DEF MapsAreVisited
<1>. QED
  BY <1>3, <1>5, <1>6, <1>7 DEF SnapshotInv

-----------------------------------------------------------------------------
(* The theorems. *)

\* Initially nothing is written and nothing is under way.
LEMMA InitSnapshot ==
  ASSUME OptInit
  PROVE  SnapshotInv
<1>. USE DEF OptInit
<1>1. OptTypeOK
  BY ScriptPlaces DEF OptTypeOK
<1>2. CallsAreWhole
  BY DEF CallsAreWhole
<1>3. IdleFieldsAgree
  BY DEF IdleFieldsAgree, Agrees
<1>4. OverlapIsTracked /\ CopiesStand /\ MapsAreVisited
  BY DEF OverlapIsTracked, CopiesStand, MapsAreVisited
<1>5. HandlersAreKnown
  <2>1. ASSUME NEW f \in Sighs PROVE hot[f] = Garbage /\ \A t \in Threads : Given(call[t], f) = {}
    BY FieldsAre DEF Given
  <2>. QED
    BY <2>1 DEF HandlersAreKnown, Known
<1>. QED
  BY <1>1, <1>2, <1>3, <1>4, <1>5 DEF SnapshotInv

\* In every state the calls are whole or stand where the served call stands, fields that
\* no call is about to write agree with the parent, and what the current checkpoint has
\* copied outside of the overlapping calls still stands.
THEOREM SnapshotInvariant == OptSpec => []SnapshotInv
<1>1. OptInit => SnapshotInv
  BY InitSnapshot
<1>2. SnapshotInv /\ [OptNext]_vars => SnapshotInv'
  <2>. SUFFICES ASSUME SnapshotInv, [OptNext]_vars PROVE SnapshotInv'
    OBVIOUS
  <2>1. CASE \E t \in Threads : ChildCalls(t)
    BY <2>1, IssueKeeps
  <2>2. CASE Entrypoint
    BY <2>2, AcceptKeeps, CallStepKeeps DEF Entrypoint, CallStep
  <2>3. CASE Monitor
    BY <2>3, BeginKeeps, EndKeeps, CopyFieldKeeps, ListStepKeeps DEF Monitor
  <2>4. CASE UNCHANGED vars
    <3>1. UNCHANGED <<hot, contexts, maps, destroyed, cold, i_contexts, visited, i_maps, parent,
                      parentMaps, call, serving, paused, at, overlapped, freed>>
      BY <2>4 DEF vars, hotVars, coldVars, parentVars, callVars, monitorVars
    <3>2. OptTypeOK' /\ CopiesStand' /\ MapsAreVisited'
      BY <3>1 DEF SnapshotInv, OptTypeOK, CopiesStand, MapsAreVisited, Overlapping
    <3>3. CallsAreWhole'
      BY <3>1 DEF SnapshotInv, CallsAreWhole, IsWhole, IsBegun
    <3>4. IdleFieldsAgree' /\ OverlapIsTracked'
      BY <3>1 DEF SnapshotInv, IdleFieldsAgree, OverlapIsTracked, Agrees, Outstanding, Touches
    <3>5. HandlersAreKnown'
      BY <3>1 DEF SnapshotInv, HandlersAreKnown, Known, Snapped, Settled, Given
    <3>. QED
      BY <3>2, <3>3, <3>4, <3>5 DEF SnapshotInv
  <2>. QED
    BY <2>1, <2>2, <2>3, <2>4 DEF OptNext
<1>. QED
  BY <1>1, <1>2, PTL DEF OptSpec

\* A snapshot that is done has every copied field, each at a place before the end.
LEMMA DoneCopies ==
  ASSUME SnapshotInv, Returned, NEW f \in Fields
  PROVE  \E i \in 1..at - 1 : Script[i] = f
<1>1. at > 13 /\ at \in Nat
  BY ScriptPlaces DEF Returned, SnapshotInv, OptTypeOK
<1>2. PICK i \in 1..13 : Script[i] = f
  BY FieldsAre, ScriptPlaces DEF Timeout, Periodic, Dataspace
<1>. QED
  BY <1>1, <1>2

\* When checkpoint() returns, the cold fields are what the parent was told or gave, save
\* those that a call was about to write: SnapshotIsParentState.
THEOREM FieldsMatchParent == OptSpec => []SnapshotIsParentState
<1>1. SnapshotInv => SnapshotIsParentState
  <2>. SUFFICES ASSUME SnapshotInv, Returned, NEW f \in Fields \ overlapped, parent[f] # Garbage
                PROVE  cold[f] = Recorded(f, parent[f])
    BY DEF SnapshotIsParentState
  <2>1. PICK i \in 1..at - 1 : Script[i] = f
    BY DoneCopies
  <2>2. cold[f] = hot[f]
    BY <2>1 DEF SnapshotInv, CopiesStand
  <2>3. f \notin Outstanding
    <3>1. at # 0
      BY ScriptPlaces DEF Returned
    <3>. QED
      BY <3>1 DEF SnapshotInv, OverlapIsTracked
  <2>. QED
    BY <2>2, <2>3 DEF SnapshotInv, IdleFieldsAgree, Agrees
<1>. QED
  BY <1>1, SnapshotInvariant, PTL

\* The handlers in the snapshot are contexts of the snapshot or were freed, for every call
\* that was under way when the child was paused: SighIsInSnapshot.
THEOREM HandlersAreInSnapshot == OptSpec => []SighIsInSnapshot
<1>1. SnapshotInv => SighIsInSnapshot
  <2>. SUFFICES ASSUME SnapshotInv, Returned, NEW f \in Sighs, paused \/ f \notin overlapped
                PROVE  cold[f] \in i_contexts \cup freed \cup {Garbage}
    BY DEF SighIsInSnapshot
  <2>1. PICK i \in 1..at - 1 : Script[i] = f
    BY DoneCopies, FieldsAre
  <2>2. at > 1 /\ Settled(f)
    BY ScriptPlaces DEF Returned, Settled, SnapshotInv, OptTypeOK
  <2>. QED
    BY <2>1, <2>2 DEF SnapshotInv, HandlersAreKnown, Snapped
<1>. QED
  BY <1>1, SnapshotInvariant, PTL

\* The published list leads to maps that were visited, and misses none, save those that
\* were being created meanwhile: PublishedMapsWereVisited.
THEOREM PublishedAreVisited == OptSpec => []PublishedMapsWereVisited
<1>1. SnapshotInv => PublishedMapsWereVisited
  <2>. SUFFICES ASSUME SnapshotInv, Returned
                PROVE  /\ i_maps \subseteq visited \cup Overlapping
                       /\ maps \subseteq i_maps \cup Overlapping
    BY DEF PublishedMapsWereVisited, Overlapping
  <2>1. at > 5
    BY ScriptPlaces DEF Returned, SnapshotInv, OptTypeOK
  <2>. QED
    BY <2>1 DEF SnapshotInv, MapsAreVisited
<1>. QED
  BY <1>1, SnapshotInvariant, PTL
=============================================================================
