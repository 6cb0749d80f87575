----------------------------- MODULE ChildProofs -----------------------------
(***************************************************************************)
(* The Child_infos, how they come about and how they are written and read  *)
(* back.                                                                   *)
(*                                                                         *)
(* Child and the list of Child_infos, for every number of entrypoints,     *)
(* children, sessions and calls of Init_module: a name has one Child_info, *)
(* the pointers lead to open sessions, a checkpoint misses no session that *)
(* stays registered and dereferences nothing without a cause, and no child *)
(* is told of quota that it was not given.                                 *)
(*                                                                         *)
(* Serializer, for every list of children, every size of a page and every  *)
(* width of the numbers: the layout is sound, what fits is parsed as it    *)
(* was, what is too large is refused, and what is left of a compress()     *)
(* that fails.                                                             *)
(***************************************************************************)
EXTENDS Child, Serializer, SequenceLemmas, FiniteSetTheorems

\* Every name a request can be about, and that of no request.
Names ==
  {NameOf(Name[t]) : t \in Childs} \cup {NameOf(Append(Name[t], "")) : t \in Childs}
    \cup {NameOf(l) : l \in Labels} \cup {<<>>}

Infos == [name : Names, session : [Pointers -> Nat]]
Objects == [kind : Kinds, info : Nat, by : Threads, state : {"open", "closing", "freed"}]
SessionRequests ==
  [at : {"idle", "find", "insert", "construct", "destroy"}, name : Names,
   kind : Kinds \cup {"none"}, info : Nat, session : Nat]

RootTypeOK ==
  /\ _childs \in Seq(Infos)
  /\ sessions \in Seq(Objects)
  /\ lock \in Threads \cup {Monitor, Nobody}
  /\ request \in [Threads -> SessionRequests]
  /\ \A t \in Threads : request[t].at \in {"find", "insert", "construct"} => request[t].kind \in Kinds
  /\ walk = [at |-> walk.at, child |-> walk.child, copy |-> walk.copy,
             started |-> walk.started, joined |-> walk.joined]

\* The owner of the lock.
Locked ==
  /\ \A t \in Threads : request[t].at = "insert" => lock = t
  /\ walk.at = "pause" => lock = Monitor

\* What the search has found is what the insertion relies on.
SearchIsValid ==
  \A t \in Threads :
    /\ request[t].at = "insert" =>
         IF request[t].info = 0
         THEN \A c \in DOMAIN _childs : _childs[c].name # request[t].name
         ELSE request[t].info \in DOMAIN _childs
    /\ request[t].at = "construct" => request[t].info \in DOMAIN _childs

ListInv == RootTypeOK /\ Locked /\ SearchIsValid /\ OneInfoPerName

-----------------------------------------------------------------------------
(* The steps of ChildNext, as far as the list and the sessions see them. *)

\* The requests that will end with a new session.
Opening == {t \in Threads : request[t].at \in {"find", "insert", "construct"}}

Created(t) ==
  /\ request[t] = Idle
  /\ Len(sessions) + Cardinality(Opening) < MaxSessions
  /\ \E name \in Names, kind \in Kinds :
       request' = [request EXCEPT ![t] = [Idle EXCEPT !.at = "find", !.name = name, !.kind = kind]]
  /\ UNCHANGED <<_childs, sessions, lock, walk, shared>>
  /\ UNCHANGED <<running, fault, due, closed, before>>

\* A step of the child, or a request of a service that nobody provides.
Elsewhere ==
  /\ UNCHANGED <<_childs, sessions, request, lock, walk, running, due, closed, before, shared>>
  /\ fault' \in {fault, "unserved"}

Walked ==
  /\ UNCHANGED <<_childs, sessions, request, shared>>
  /\ walk' = [at |-> walk'.at, child |-> walk'.child, copy |-> walk'.copy,
              started |-> walk'.started, joined |-> walk'.joined]
  /\ \/ lock' = lock /\ (walk'.at = "pause" => walk.at = "pause")
     \/ lock = Nobody /\ lock' = Monitor
     \/ walk.at = "pause" /\ lock' = Nobody /\ walk'.at # "pause"

ThreadStep(t) ==
  \/ Created(t) \/ FindInfo(t) \/ InsertInfo(t) \/ Construct(t) \/ Destroy(t)
  \/ \E o \in DOMAIN sessions : Unregister(t, o)

LEMMA CreateStep ==
  ASSUME NEW t \in Threads, NEW label, NameOf(label) \in Names, NEW kind \in Kinds,
         create(t, label, kind)
  PROVE  ThreadStep(t)
  BY DEF create, ThreadStep, Created, Opening, walkVars, history

LEMMA InitModuleStep ==
  ASSUME RootTypeOK, Init_module
  PROVE  Walked
<1> USE DEF RootTypeOK, Walked, rootVars, walkVars, history, Still
<1>1. CASE CallCheckpoint
  BY <1>1 DEF CallCheckpoint
<1>2. CASE LoadPointers
  BY <1>2 DEF LoadPointers
<1>3. CASE StartSession
  BY <1>3 DEF StartSession
<1>4. CASE JoinSession
  BY <1>4 DEF JoinSession
<1>5. CASE NextChild
  BY <1>5 DEF NextChild
<1>6. CASE \E op \in Walks : CallWalk(op)
  BY <1>6 DEF CallWalk
<1>7. CASE Visit
  <2>1. PICK op \in Walks : \E used : VisitChild(op, used)
    BY <1>7 DEF Visit, Walks
  <2>. QED
    BY <2>1 DEF VisitChild
<1>8. CASE WalkReturns
  BY <1>8 DEF WalkReturns, Walks
<1>9. CASE \E k \in running : WorkerDone(k)
  BY <1>9 DEF WorkerDone
<1>. QED
  BY <1>1, <1>2, <1>3, <1>4, <1>5, <1>6, <1>7, <1>8, <1>9 DEF Init_module

LEMMA ChildNextSteps ==
  ASSUME ChildNext
  PROVE  fault = "none" /\ (Init_module \/ Elsewhere \/ \E t \in Threads : ThreadStep(t))
<1>0. Childs \subseteq Threads /\ ModuleServices \subseteq Kinds /\ Announced \subseteq Kinds
  BY ChildAssumption
<1>2. ASSUME NEW t \in Threads, Handle(t)
      PROVE  ThreadStep(t)
  BY <1>2 DEF Handle, ThreadStep
<1>3. ASSUME NEW t \in Threads \ Childs, AnnouncedRoot(t)
      PROVE  ThreadStep(t)
  <2>1. CASE \E label \in Labels, kind \in Announced : create(t, label, kind)
    <3>1. PICK label \in Labels, kind \in Announced : create(t, label, kind)
      BY <2>1
    <3>2. NameOf(label) \in Names
      BY DEF Names
    <3>. QED
      BY <1>0, <3>1, <3>2, CreateStep
  <2>2. CASE \E o \in DOMAIN sessions : Unregister(t, o)
    BY <2>2 DEF ThreadStep
  <2>. QED
    BY <1>3, <2>1, <2>2 DEF AnnouncedRoot
<1>4. ASSUME NEW t \in Childs, ChildStep(t)
      PROVE  Elsewhere \/ ThreadStep(t)
  <2>0. t \in Threads /\ {"pd", "cpu"} \subseteq Kinds
    BY <1>0 DEF Kinds
  <2>1. ASSUME UNCHANGED <<rootVars, walkVars, history>>, fault' \in {fault, "unserved"}
        PROVE  Elsewhere
    BY <2>1 DEF Elsewhere, rootVars, walkVars, history
  <2>2. NameOf(Name[t]) \in Names /\ NameOf(Append(Name[t], "")) \in Names
    BY DEF Names
  <2>3. CASE create_pd_session(t) \/ open_cpu(t)
    BY <2>0, <2>2, <2>3, CreateStep DEF create_pd_session, open_cpu
  <2>4. CASE \E service \in Services : request_session(t, service)
    <3>1. PICK service \in Services : request_session(t, service)
      BY <2>4
    <3>2. CASE /\ resolve_session_request(service) = "module"
               /\ create(t, Append(Name[t], ""), service)
      <4>1. service \in Kinds
        BY <1>0, <3>2 DEF resolve_session_request
      <4>. QED
        BY <2>0, <2>2, <3>2, <4>1, CreateStep
    <3>3. CASE UNCHANGED <<rootVars, walkVars, history>> /\ fault' = "unserved"
      BY <2>1, <3>3
    <3>. QED
      BY <3>1, <3>2, <3>3 DEF request_session
  <2>5. CASE \E o \in DOMAIN sessions : close_session(t, o)
    BY <2>0, <2>5 DEF close_session, ThreadStep
  <2>6. CASE \/ read_quotas(t) \/ init_pd(t) \/ give_resources(t)
             \/ \E args \in Requests : resource_request(t, args)
    BY <2>1, <2>6 DEF read_quotas, init_pd, give_resources, resource_request, vars
  <2>. QED
    BY <1>4, <2>3, <2>4, <2>5, <2>6 DEF ChildStep
<1>. QED
  BY <1>0, <1>2, <1>3, <1>4 DEF ChildNext

-----------------------------------------------------------------------------
(* One Child_info for a name. *)

LEMMA FindByName ==
  ASSUME RootTypeOK, NEW name
  PROVE  LET c == find_by_name(name)
         IN  IF c = 0 THEN \A d \in DOMAIN _childs : _childs[d].name # name
             ELSE c \in DOMAIN _childs /\ _childs[c].name = name
<1> DEFINE I == {i \in 1 .. Len(_childs) : _childs[i].name = name}
<1>1. Len(_childs) \in Nat /\ DOMAIN _childs = 1 .. Len(_childs)
  BY LenProperties DEF RootTypeOK
<1>2. find_by_name(name) = IF I # {} THEN Max(I) ELSE 0
  BY DEF find_by_name, SelectLastInSeq
<1>3. I # {} => Max(I) \in I
  <2>1. I \in SUBSET (1 .. Len(_childs))
    OBVIOUS
  <2>. HIDE DEF I
  <2>. QED
    BY <1>1, <2>1, MaxIsElement
<1>4. CASE I = {}
  BY <1>1, <1>2, <1>4
<1>5. CASE I # {}
  <2>1. find_by_name(name) \in I
    BY <1>2, <1>3, <1>5
  <2>. QED
    BY <1>1, <2>1
<1>. QED
  BY <1>4, <1>5

\* A list that is extended or of which a pointer is set keeps its names.
LEMMA PointType ==
  ASSUME RootTypeOK, NEW c \in DOMAIN _childs, NEW kind \in Kinds, NEW o \in Nat,
         Point(c, kind, o)
  PROVE  /\ _childs' \in Seq(Infos)
         /\ DOMAIN _childs' = DOMAIN _childs
         /\ \A d \in DOMAIN _childs : _childs'[d].name = _childs[d].name
         /\ \A d \in DOMAIN _childs, k \in Pointers :
              _childs'[d].session[k] =
                IF d = c /\ k \in PointersTo(kind) THEN o ELSE _childs[d].session[k]
<1> DEFINE s == _childs[c].session
           i == [_childs[c] EXCEPT !.session = [k \in Pointers |-> IF k \in PointersTo(kind) THEN o ELSE s[k]]]
<1>0. /\ _childs \in Seq(Infos) /\ Len(_childs) \in Nat
      /\ DOMAIN _childs = 1 .. Len(_childs)
      /\ \A d \in DOMAIN _childs : _childs[d] \in Infos
  BY LenProperties, ElementOfSeq DEF RootTypeOK
<1>1. i \in Infos
  BY <1>0 DEF Infos
<1>2. _childs' = [_childs EXCEPT ![c] = i]
  BY DEF Point
<1>3. _childs' \in Seq(Infos) /\ DOMAIN _childs' = DOMAIN _childs
  BY <1>0, <1>1, <1>2, ExceptSeq
<1>4. \A d \in DOMAIN _childs : _childs'[d] = IF d = c THEN i ELSE _childs[d]
  BY <1>0, <1>2
<1>5. i.name = _childs[c].name /\ \A k \in Pointers : i.session[k] = IF k \in PointersTo(kind) THEN o ELSE s[k]
  BY <1>0 DEF Infos
<1>. QED
  BY <1>3, <1>4, <1>5

LEMMA AppendType ==
  ASSUME NEW S, NEW seq \in Seq(S), NEW e \in S
  PROVE  /\ Append(seq, e) \in Seq(S)
         /\ Len(seq) \in Nat
         /\ DOMAIN seq = 1 .. Len(seq)
         /\ DOMAIN Append(seq, e) = 1 .. Len(seq) + 1
         /\ \A i \in DOMAIN seq : Append(seq, e)[i] = seq[i]
         /\ Append(seq, e)[Len(seq) + 1] = e
  BY AppendProperties, LenProperties

LEMMA RequestFields ==
  ASSUME RootTypeOK, NEW t \in Threads
  PROVE  request[t] \in SessionRequests
  BY DEF RootTypeOK

LEMMA SessionFields ==
  ASSUME RootTypeOK, NEW o \in DOMAIN sessions
  PROVE  sessions[o] \in Objects
  BY LenProperties, ElementOfSeq DEF RootTypeOK

LEMMA ListInvInit == ChildInit => ListInv
<1>1. Nobody \notin Threads /\ <<>> \in Names
  BY RootAssumption DEF Names
<1>. QED
  BY <1>1 DEF ChildInit, RootInit, ListInv, RootTypeOK, Locked, SearchIsValid, OneInfoPerName,
         Idle, Still, SessionRequests

LEMMA ListInvCreated ==
  ASSUME ListInv, NEW t \in Threads, Created(t)
  PROVE  ListInv'
<1>1. PICK name \in Names, kind \in Kinds :
        request' = [request EXCEPT ![t] = [Idle EXCEPT !.at = "find", !.name = name, !.kind = kind]]
  BY DEF Created
<1>2. [Idle EXCEPT !.at = "find", !.name = name, !.kind = kind] \in SessionRequests
  BY DEF Idle, SessionRequests
<1>3. \A u \in Threads : u # t => request'[u] = request[u]
  BY <1>1 DEF ListInv, RootTypeOK
<1>4. request'[t].at = "find" /\ request'[t].kind = kind
  BY <1>1 DEF ListInv, RootTypeOK, Idle
<1>5. RootTypeOK'
  BY <1>1, <1>2, <1>3, <1>4 DEF ListInv, RootTypeOK, Created
<1>. QED
  BY <1>3, <1>4, <1>5 DEF ListInv, Created, Locked, SearchIsValid, OneInfoPerName

LEMMA ListInvFind ==
  ASSUME ListInv, NEW t \in Threads, FindInfo(t)
  PROVE  ListInv'
<1> DEFINE found == find_by_name(request[t].name)
<1>0. Nobody \notin Threads /\ Monitor # Nobody
  BY RootAssumption
<1>1. IF found = 0 THEN \A d \in DOMAIN _childs : _childs[d].name # request[t].name
      ELSE found \in DOMAIN _childs
  BY FindByName DEF ListInv
<1>2. found \in Nat
  BY <1>1, LenProperties DEF ListInv, RootTypeOK
<1>. HIDE DEF found
<1>3. /\ request' = [request EXCEPT ![t].at = "insert", ![t].info = found]
      /\ request[t].at = "find" /\ lock = Nobody /\ lock' = t
      /\ UNCHANGED <<_childs, sessions, walk>>
  BY DEF FindInfo, found, walkVars
<1>4. request'[t] = [request[t] EXCEPT !.at = "insert", !.info = found]
      /\ \A u \in Threads : u # t => request'[u] = request[u]
  BY <1>3 DEF ListInv, RootTypeOK
<1>5. /\ request'[t].at = "insert" /\ request'[t].info = found
      /\ request'[t].name = request[t].name /\ request'[t].kind = request[t].kind
      /\ request'[t] \in SessionRequests
  BY <1>2, <1>4, RequestFields DEF ListInv, SessionRequests
<1>6. RootTypeOK'
  BY <1>3, <1>4, <1>5 DEF ListInv, RootTypeOK
<1>7. \A u \in Threads : request[u].at # "insert"
  BY <1>0, <1>3 DEF ListInv, Locked
<1>8. Locked'
  BY <1>0, <1>3, <1>4, <1>7 DEF ListInv, Locked
<1>9. SearchIsValid'
  <2>1. IF found = 0 THEN \A d \in DOMAIN _childs' : _childs'[d].name # request'[t].name
        ELSE found \in DOMAIN _childs'
    BY <1>1, <1>3, <1>5
  <2>2. ASSUME NEW u \in Threads, u # t
        PROVE  request'[u].at # "insert" /\ request'[u] = request[u]
    BY <1>4, <1>7, <2>2
  <2>3. ASSUME NEW u \in Threads, request'[u].at = "insert"
        PROVE  IF request'[u].info = 0
               THEN \A d \in DOMAIN _childs' : _childs'[d].name # request'[u].name
               ELSE request'[u].info \in DOMAIN _childs'
    <3>1. u = t
      BY <2>2, <2>3
    <3>. QED
      BY <1>5, <2>1, <3>1
  <2>4. ASSUME NEW u \in Threads, request'[u].at = "construct"
        PROVE  request'[u].info \in DOMAIN _childs'
    <3>1. u # t
      BY <1>5, <2>4
    <3>. QED
      BY <1>3, <2>2, <2>4, <3>1 DEF ListInv, SearchIsValid
  <2>. QED
    BY <2>3, <2>4 DEF SearchIsValid
<1>. QED
  BY <1>3, <1>6, <1>8, <1>9 DEF ListInv, OneInfoPerName

LEMMA ListInvInsert ==
  ASSUME ListInv, NEW t \in Threads, InsertInfo(t)
  PROVE  ListInv'
<1> DEFINE r == request[t]
           n == IF r.info = 0 THEN Len(_childs) + 1 ELSE r.info
<1>0. Nobody \notin Threads /\ Monitor \notin Threads
  BY RootAssumption
<1>1. /\ r \in SessionRequests /\ r.at = "insert" /\ lock = t
      /\ _childs \in Seq(Infos) /\ Len(_childs) \in Nat /\ DOMAIN _childs = 1 .. Len(_childs)
  BY LenProperties, RequestFields DEF ListInv, RootTypeOK, Locked, InsertInfo
<1>2. /\ request' = [request EXCEPT ![t].at = "construct", ![t].info = n]
      /\ lock' = Nobody
      /\ UNCHANGED <<sessions, walk>>
  BY DEF InsertInfo, walkVars
<1>3. /\ _childs' \in Seq(Infos)
      /\ n \in DOMAIN _childs'
      /\ DOMAIN _childs \subseteq DOMAIN _childs'
      /\ OneInfoPerName'
  <2>1. CASE r.info # 0
    <3>1. _childs' = _childs /\ r.info \in DOMAIN _childs
      BY <1>1, <2>1 DEF InsertInfo, ListInv, SearchIsValid
    <3>. QED
      BY <1>1, <2>1, <3>1 DEF ListInv, OneInfoPerName
  <2>2. CASE r.info = 0
    <3>1. PICK p \in FreshPointers :
            _childs' = Append(_childs, [name |-> r.name, session |-> [k \in Pointers |-> p]])
      BY <2>2 DEF InsertInfo
    <3> DEFINE i == [name |-> r.name, session |-> [k \in Pointers |-> p]]
    <3>2. i \in Infos /\ i.name = r.name
      BY <1>1, RootAssumption DEF Infos, SessionRequests, Wild
    <3>. HIDE DEF i
    <3>3. /\ _childs' \in Seq(Infos)
          /\ DOMAIN _childs' = 1 .. Len(_childs) + 1
          /\ \A c \in DOMAIN _childs : _childs'[c] = _childs[c]
          /\ _childs'[Len(_childs) + 1] = i
      BY <1>1, <3>1, <3>2, AppendType DEF i
    <3>4. \A c \in DOMAIN _childs : _childs[c].name # r.name
      BY <1>1, <2>2 DEF ListInv, SearchIsValid
    <3>. QED
      BY <1>1, <2>2, <3>2, <3>3, <3>4 DEF ListInv, OneInfoPerName
  <2>. QED
    BY <2>1, <2>2
<1>4. n \in Nat
  BY <1>1 DEF SessionRequests
<1>. HIDE DEF n
<1>5. request'[t] = [r EXCEPT !.at = "construct", !.info = n]
      /\ \A u \in Threads : u # t => request'[u] = request[u]
  BY <1>2 DEF ListInv, RootTypeOK
<1>6. /\ request'[t].at = "construct" /\ request'[t].info = n /\ request'[t].kind = r.kind
      /\ request'[t] \in SessionRequests
  BY <1>1, <1>4, <1>5 DEF SessionRequests
<1>7. RootTypeOK'
  BY <1>1, <1>2, <1>3, <1>5, <1>6 DEF ListInv, RootTypeOK
<1>8. \A u \in Threads : u # t => request[u].at # "insert"
  BY <1>1 DEF ListInv, Locked
<1>9. Locked' /\ SearchIsValid'
  <2>1. Locked'
    BY <1>0, <1>1, <1>2, <1>5, <1>6, <1>8 DEF ListInv, Locked
  <2>2. SearchIsValid'
    BY <1>3, <1>5, <1>6, <1>8 DEF ListInv, SearchIsValid
  <2>. QED
    BY <2>1, <2>2
<1>. QED
  BY <1>3, <1>7, <1>9 DEF ListInv

\* A request is through: the list keeps its names, the other requests stay.
LEMMA ListInvFinished ==
  ASSUME ListInv, NEW t \in Threads, NEW next \in SessionRequests,
         next.at \in {"idle", "destroy"},
         request' = [request EXCEPT ![t] = next],
         _childs' \in Seq(Infos), DOMAIN _childs' = DOMAIN _childs,
         \A c \in DOMAIN _childs : _childs'[c].name = _childs[c].name,
         sessions' \in Seq(Objects),
         UNCHANGED <<lock, walk>>
  PROVE  ListInv'
<1>1. request'[t] = next /\ \A u \in Threads : u # t => request'[u] = request[u]
  BY DEF ListInv, RootTypeOK
<1>2. RootTypeOK'
  BY <1>1 DEF ListInv, RootTypeOK
<1>3. Locked'
  BY <1>1 DEF ListInv, Locked
<1>4. SearchIsValid'
  BY <1>1 DEF ListInv, SearchIsValid
<1>5. OneInfoPerName'
  BY DEF ListInv, OneInfoPerName
<1>. QED
  BY <1>2, <1>3, <1>4, <1>5 DEF ListInv

-----------------------------------------------------------------------------
(* What the other steps of a thread do to the list and the sessions. *)

LEMMA ConstructEffect ==
  ASSUME ListInv, NEW t \in Threads, Construct(t)
  PROVE  LET c == request[t].info  kind == request[t].kind  n == Len(sessions) + 1
         IN  /\ ListInv'
             /\ c \in DOMAIN _childs /\ kind \in Kinds
             /\ n \in Nat \ {0}
             /\ DOMAIN sessions = 1 .. n - 1 /\ DOMAIN sessions' = 1 .. n
             /\ \A o \in DOMAIN sessions : sessions'[o] = sessions[o]
             /\ sessions'[n] = [kind |-> kind, info |-> c, by |-> t, state |-> "open"]
             /\ DOMAIN _childs' = DOMAIN _childs
             /\ \A d \in DOMAIN _childs, k \in Pointers :
                  _childs'[d].session[k] =
                    IF d = c /\ k \in PointersTo(kind) THEN n ELSE _childs[d].session[k]
             /\ shared' = IF Open(c, kind) # {} THEN shared \cup {<<c, kind>>} ELSE shared
             /\ request' = [request EXCEPT ![t] = Idle]
<1> DEFINE c == request[t].info
           kind == request[t].kind
           n == Len(sessions) + 1
           object == [kind |-> kind, info |-> c, by |-> t, state |-> "open"]
<1>1. /\ request[t].at = "construct" /\ request[t] \in SessionRequests
      /\ c \in DOMAIN _childs /\ kind \in Kinds
  BY RequestFields DEF Construct, ListInv, RootTypeOK, SearchIsValid
<1>2. /\ sessions' = Append(sessions, object)
      /\ Point(c, kind, n)
      /\ shared' = IF Open(c, kind) # {} THEN shared \cup {<<c, kind>>} ELSE shared
      /\ request' = [request EXCEPT ![t] = Idle]
      /\ UNCHANGED <<lock, walk>>
  BY DEF Construct, walkVars
<1>3. object \in Objects
  BY <1>1 DEF Objects, SessionRequests
<1>4. sessions \in Seq(Objects) /\ Len(sessions) \in Nat
  BY LenProperties DEF ListInv, RootTypeOK
<1>5. Idle \in SessionRequests /\ Idle.at = "idle"
  BY DEF Idle, SessionRequests, Names
<1>. HIDE DEF object
<1>6. /\ sessions' \in Seq(Objects) /\ DOMAIN sessions = 1 .. Len(sessions)
      /\ DOMAIN sessions' = 1 .. n
      /\ \A o \in DOMAIN sessions : sessions'[o] = sessions[o]
      /\ sessions'[n] = object
  BY <1>2, <1>3, <1>4, AppendType
<1>7. /\ _childs' \in Seq(Infos)
      /\ DOMAIN _childs' = DOMAIN _childs
      /\ \A d \in DOMAIN _childs : _childs'[d].name = _childs[d].name
      /\ \A d \in DOMAIN _childs, k \in Pointers :
           _childs'[d].session[k] =
             IF d = c /\ k \in PointersTo(kind) THEN n ELSE _childs[d].session[k]
  <2>. n \in Nat
    BY <1>4
  <2>. HIDE DEF c, kind, n
  <2>. QED
    BY <1>1, <1>2, PointType DEF ListInv
<1>8. ListInv'
  BY <1>2, <1>5, <1>6, <1>7, ListInvFinished
<1>9. n \in Nat \ {0} /\ n - 1 = Len(sessions)
  BY <1>4
<1>. QED
  BY <1>1, <1>2, <1>6, <1>7, <1>8, <1>9 DEF object

LEMMA UnregisterEffect ==
  ASSUME ListInv, NEW t \in Threads, NEW o \in DOMAIN sessions,
         sessions[o].info \in DOMAIN _childs, Unregister(t, o)
  PROVE  LET c == sessions[o].info  kind == sessions[o].kind
         IN  /\ ListInv'
             /\ kind \in Kinds
             /\ sessions[o].state = "open" /\ sessions[o].by = t
             /\ DOMAIN sessions' = DOMAIN sessions
             /\ \A p \in DOMAIN sessions :
                  sessions'[p] = IF p = o THEN [sessions[o] EXCEPT !.state = "closing"] ELSE sessions[p]
             /\ DOMAIN _childs' = DOMAIN _childs
             /\ \A d \in DOMAIN _childs, k \in Pointers :
                  _childs'[d].session[k] =
                    IF d = c /\ k \in PointersTo(kind) THEN 0 ELSE _childs[d].session[k]
             /\ shared' = shared
             /\ request' = [request EXCEPT ![t] = [Idle EXCEPT !.at = "destroy", !.session = o]]
<1> DEFINE c == sessions[o].info
           kind == sessions[o].kind
           next == [Idle EXCEPT !.at = "destroy", !.session = o]
           object == [sessions[o] EXCEPT !.state = "closing"]
<1>1. /\ sessions \in Seq(Objects) /\ Len(sessions) \in Nat /\ DOMAIN sessions = 1 .. Len(sessions)
      /\ sessions[o] \in Objects
  BY LenProperties, ElementOfSeq DEF ListInv, RootTypeOK
<1>2. /\ sessions' = [sessions EXCEPT ![o] = object]
      /\ Point(c, kind, 0)
      /\ sessions[o].state = "open" /\ sessions[o].by = t
      /\ shared' = shared
      /\ request' = [request EXCEPT ![t] = next]
      /\ UNCHANGED <<lock, walk>>
  BY DEF Unregister, walkVars
<1>3. object \in Objects /\ kind \in Kinds
  BY <1>1 DEF Objects
<1>4. next \in SessionRequests /\ next.at = "destroy"
  <2>1. o \in Nat /\ <<>> \in Names
    BY <1>1 DEF Names
  <2>2. Idle \in SessionRequests
    BY <2>1 DEF Idle, SessionRequests
  <2>3. next \in SessionRequests
    BY <2>1, <2>2 DEF SessionRequests
  <2>4. next.at = "destroy"
    BY <2>2 DEF SessionRequests
  <2>. QED
    BY <2>3, <2>4
<1>5. /\ sessions' \in Seq(Objects) /\ DOMAIN sessions' = DOMAIN sessions
      /\ \A p \in DOMAIN sessions : sessions'[p] = IF p = o THEN object ELSE sessions[p]
  <2>. HIDE DEF object
  <2>. QED
    BY <1>1, <1>2, <1>3, ExceptSeq
<1>6. /\ _childs' \in Seq(Infos)
      /\ DOMAIN _childs' = DOMAIN _childs
      /\ \A d \in DOMAIN _childs : _childs'[d].name = _childs[d].name
      /\ \A d \in DOMAIN _childs, k \in Pointers :
           _childs'[d].session[k] =
             IF d = c /\ k \in PointersTo(kind) THEN 0 ELSE _childs[d].session[k]
  BY <1>2, <1>3, PointType DEF ListInv
<1>7. ListInv'
  <2>. HIDE DEF next
  <2>. QED
    BY <1>2, <1>4, <1>5, <1>6, ListInvFinished
<1>. QED
  BY <1>2, <1>3, <1>5, <1>6, <1>7

LEMMA DestroyEffect ==
  ASSUME ListInv, NEW t \in Threads, request[t].session \in DOMAIN sessions, Destroy(t)
  PROVE  LET o == request[t].session
         IN  /\ ListInv'
             /\ request[t].at = "destroy"
             /\ DOMAIN sessions' = DOMAIN sessions
             /\ \A p \in DOMAIN sessions :
                  sessions'[p] = IF p = o THEN [sessions[o] EXCEPT !.state = "freed"] ELSE sessions[p]
             /\ UNCHANGED <<_childs, shared>>
             /\ request' = [request EXCEPT ![t] = Idle]
<1> DEFINE o == request[t].session
           object == [sessions[o] EXCEPT !.state = "freed"]
<1>1. /\ sessions \in Seq(Objects) /\ Len(sessions) \in Nat /\ DOMAIN sessions = 1 .. Len(sessions)
      /\ sessions[o] \in Objects
  BY LenProperties, ElementOfSeq DEF ListInv, RootTypeOK
<1>2. /\ sessions' = [sessions EXCEPT ![o] = object]
      /\ request[t].at = "destroy"
      /\ request' = [request EXCEPT ![t] = Idle]
      /\ UNCHANGED <<_childs, shared, lock, walk>>
  BY DEF Destroy, walkVars, history
<1>3. object \in Objects
  BY <1>1 DEF Objects
<1>4. Idle \in SessionRequests /\ Idle.at = "idle"
  BY DEF Idle, SessionRequests, Names
<1>5. /\ sessions' \in Seq(Objects) /\ DOMAIN sessions' = DOMAIN sessions
      /\ \A p \in DOMAIN sessions : sessions'[p] = IF p = o THEN object ELSE sessions[p]
  <2>. HIDE DEF object
  <2>. QED
    BY <1>1, <1>2, <1>3, ExceptSeq
<1>6. ListInv'
  BY <1>2, <1>4, <1>5, ListInvFinished DEF ListInv, RootTypeOK
<1>. QED
  BY <1>2, <1>5, <1>6

LEMMA ListInvWalked ==
  ASSUME ListInv, Walked
  PROVE  ListInv'
<1>0. Nobody \notin Threads /\ Monitor \notin Threads /\ Nobody # Monitor
  BY RootAssumption
<1>1. RootTypeOK'
  BY DEF Walked, ListInv, RootTypeOK
<1>2. Locked'
  BY <1>0 DEF Walked, ListInv, Locked
<1>. QED
  BY <1>1, <1>2 DEF Walked, ListInv, SearchIsValid, OneInfoPerName

-----------------------------------------------------------------------------
(* The pointers. *)

\* A pointer that is neither null nor wild is one to a session that was created,
\* and a session belongs to a Child_info.
References ==
  /\ \A c \in DOMAIN _childs, k \in Pointers :
       _childs[c].session[k] \in {0, Wild} \cup DOMAIN sessions
  /\ \A o \in DOMAIN sessions : sessions[o].info \in DOMAIN _childs

\* A session is destroyed by the thread that created it, after its destructor.
ClosingSession ==
  \A t \in Threads : request[t].at = "destroy" =>
    LET o == request[t].session
    IN  o \in DOMAIN sessions /\ sessions[o].state = "closing" /\ sessions[o].by = t

\* Two open sessions of a child and a kind are on record.
TwoAreShared ==
  \A o, p \in DOMAIN sessions :
    /\ o # p /\ sessions[o].state = "open" /\ sessions[p].state = "open"
    /\ sessions[o].info = sessions[p].info /\ sessions[o].kind = sessions[p].kind
    => <<sessions[o].info, sessions[o].kind>> \in shared

PointerInv ==
  /\ ListInv
  /\ References
  /\ ClosingSession
  /\ PointersAreOpen
  /\ TwoAreShared
  /\ SoleSessionIsRegistered

LEMMA DistinctPointers ==
  /\ \A kind \in Kinds : PointersTo(kind) \subseteq Pointers
  /\ \A k1, k2 \in Kinds, k \in Pointers : k \in PointersTo(k1) /\ k \in PointersTo(k2) => k1 = k2
  BY DEF Kinds, Pointers, PointersTo

LEMMA PointerInvInit == ChildInit => PointerInv
<1>1. ChildInit => ListInv
  BY ListInvInit
<1>2. ChildInit => _childs = <<>> /\ sessions = <<>> /\ \A t \in Threads : request[t].at = "idle"
  BY DEF ChildInit, RootInit, Idle
<1>. QED
  BY <1>1, <1>2 DEF PointerInv, References, ClosingSession, PointersAreOpen, TwoAreShared,
                    SoleSessionIsRegistered

LEMMA PointerInvConstruct ==
  ASSUME PointerInv, NEW t \in Threads, Construct(t)
  PROVE  PointerInv'
<1> DEFINE c == request[t].info
           kind == request[t].kind
           n == Len(sessions) + 1
<1>0. ListInv
  BY DEF PointerInv
<1>1. /\ ListInv'
      /\ c \in DOMAIN _childs /\ kind \in Kinds
      /\ n \in Nat \ {0}
      /\ DOMAIN sessions = 1 .. n - 1 /\ DOMAIN sessions' = 1 .. n
      /\ \A o \in DOMAIN sessions : sessions'[o] = sessions[o]
      /\ sessions'[n] = [kind |-> kind, info |-> c, by |-> t, state |-> "open"]
      /\ DOMAIN _childs' = DOMAIN _childs
      /\ \A d \in DOMAIN _childs, k \in Pointers :
           _childs'[d].session[k] =
             IF d = c /\ k \in PointersTo(kind) THEN n ELSE _childs[d].session[k]
      /\ shared' = IF Open(c, kind) # {} THEN shared \cup {<<c, kind>>} ELSE shared
      /\ request' = [request EXCEPT ![t] = Idle]
  BY <1>0, ConstructEffect
<1>. HIDE DEF c, kind, n
<1>2. /\ sessions'[n].kind = kind /\ sessions'[n].info = c /\ sessions'[n].state = "open"
      /\ DOMAIN sessions' = DOMAIN sessions \cup {n} /\ n \notin DOMAIN sessions
  BY <1>1
<1>3. References'
  BY <1>1, <1>2 DEF PointerInv, References
<1>4. ClosingSession'
  <2>1. request'[t].at = "idle" /\ \A u \in Threads : u # t => request'[u] = request[u]
    BY <1>0, <1>1 DEF ListInv, RootTypeOK, Idle
  <2>. QED
    BY <1>1, <1>2, <2>1 DEF PointerInv, ClosingSession
<1>5. PointersAreOpen'
  <2>. SUFFICES ASSUME NEW d \in DOMAIN _childs, NEW k \in Pointers,
                       NEW o, o = _childs'[d].session[k], o # 0, o # Wild
                PROVE  /\ sessions'[o].info = d /\ k \in PointersTo(sessions'[o].kind)
                       /\ sessions'[o].state = "open"
    BY <1>1 DEF PointersAreOpen
  <2>1. CASE d = c /\ k \in PointersTo(kind)
    BY <1>1, <1>2, <2>1
  <2>2. CASE ~ (d = c /\ k \in PointersTo(kind))
    <3>1. o = _childs[d].session[k] /\ o \in DOMAIN sessions
      BY <1>1, <2>2 DEF PointerInv, References
    <3>. QED
      BY <1>1, <3>1 DEF PointerInv, PointersAreOpen
  <2>. QED
    BY <2>1, <2>2
<1>6. \A o \in DOMAIN sessions :
        sessions[o].state = "open" /\ sessions[o].info = c /\ sessions[o].kind = kind
          => <<c, kind>> \in shared'
  BY <1>1 DEF Open
<1>7. shared \subseteq shared'
  BY <1>1
<1>8. TwoAreShared'
  <2>. SUFFICES ASSUME NEW o \in DOMAIN sessions', NEW p \in DOMAIN sessions', o # p,
                       sessions'[o].state = "open", sessions'[p].state = "open",
                       sessions'[o].info = sessions'[p].info, sessions'[o].kind = sessions'[p].kind
                PROVE  <<sessions'[o].info, sessions'[o].kind>> \in shared'
    BY DEF TwoAreShared
  <2>1. CASE o = n \/ p = n
    BY <1>1, <1>2, <1>6, <2>1
  <2>2. CASE o # n /\ p # n
    BY <1>1, <1>2, <1>7, <2>2 DEF PointerInv, TwoAreShared
  <2>. QED
    BY <2>1, <2>2
<1>9. SoleSessionIsRegistered'
  <2>. SUFFICES ASSUME NEW o \in DOMAIN sessions', sessions'[o].state = "open",
                       <<sessions'[o].info, sessions'[o].kind>> \notin shared',
                       NEW k \in PointersTo(sessions'[o].kind)
                PROVE  _childs'[sessions'[o].info].session[k] = o
    BY DEF SoleSessionIsRegistered
  <2>1. CASE o = n
    BY <1>1, <1>2, <2>1, DistinctPointers
  <2>2. CASE o # n
    <3>1. /\ o \in DOMAIN sessions /\ sessions'[o] = sessions[o]
          /\ sessions[o].info \in DOMAIN _childs
      BY <1>1, <1>2, <2>2 DEF PointerInv, References
    <3>2. sessions[o].kind \in Kinds
      BY <1>0, <3>1, SessionFields DEF ListInv, Objects
    <3>3. _childs[sessions[o].info].session[k] = o
      BY <1>7, <3>1 DEF PointerInv, SoleSessionIsRegistered
    <3>4. ~ (sessions[o].info = c /\ sessions[o].kind = kind)
      BY <1>6, <3>1
    <3>5. ~ (sessions[o].info = c /\ k \in PointersTo(kind)) /\ k \in Pointers
      BY <1>1, <3>1, <3>2, <3>4, DistinctPointers
    <3>. QED
      BY <1>1, <3>1, <3>3, <3>5
  <2>. QED
    BY <2>1, <2>2
<1>. QED
  BY <1>1, <1>3, <1>4, <1>5, <1>8, <1>9 DEF PointerInv

LEMMA PointerInvUnregister ==
  ASSUME PointerInv, NEW t \in Threads, NEW o \in DOMAIN sessions, Unregister(t, o)
  PROVE  PointerInv'
<1> DEFINE c == sessions[o].info
           kind == sessions[o].kind
<1>0. ListInv /\ c \in DOMAIN _childs /\ o \in Nat \ {0}
  BY LenProperties DEF PointerInv, References, ListInv, RootTypeOK
<1>1. /\ ListInv'
      /\ kind \in Kinds
      /\ sessions[o].state = "open" /\ sessions[o].by = t
      /\ DOMAIN sessions' = DOMAIN sessions
      /\ \A p \in DOMAIN sessions :
           sessions'[p] = IF p = o THEN [sessions[o] EXCEPT !.state = "closing"] ELSE sessions[p]
      /\ DOMAIN _childs' = DOMAIN _childs
      /\ \A d \in DOMAIN _childs, k \in Pointers :
           _childs'[d].session[k] =
             IF d = c /\ k \in PointersTo(kind) THEN 0 ELSE _childs[d].session[k]
      /\ shared' = shared
      /\ request' = [request EXCEPT ![t] = [Idle EXCEPT !.at = "destroy", !.session = o]]
  BY <1>0, UnregisterEffect
<1>. HIDE DEF c, kind
<1>2. \A p \in DOMAIN sessions :
        /\ sessions'[p].info = sessions[p].info /\ sessions'[p].kind = sessions[p].kind
        /\ sessions'[p].by = sessions[p].by
        /\ sessions'[p].state = IF p = o THEN "closing" ELSE sessions[p].state
  BY <1>0, <1>1, SessionFields DEF ListInv, Objects
<1>3. References'
  BY <1>1, <1>2 DEF PointerInv, References
<1>4. ClosingSession'
  <2>1. /\ request'[t].session = o
        /\ \A u \in Threads : u # t => request'[u] = request[u]
    BY <1>0, <1>1 DEF ListInv, RootTypeOK, Idle
  <2>2. \A u \in Threads : request[u].at = "destroy" => request[u].session # o
    BY <1>1 DEF PointerInv, ClosingSession
  <2>. QED
    BY <1>1, <1>2, <2>1, <2>2 DEF PointerInv, ClosingSession
<1>5. PointersAreOpen'
  <2>. SUFFICES ASSUME NEW d \in DOMAIN _childs, NEW k \in Pointers,
                       NEW p, p = _childs'[d].session[k], p # 0, p # Wild
                PROVE  /\ sessions'[p].info = d /\ k \in PointersTo(sessions'[p].kind)
                       /\ sessions'[p].state = "open"
    BY <1>1 DEF PointersAreOpen
  <2>1. p = _childs[d].session[k] /\ ~ (d = c /\ k \in PointersTo(kind))
    BY <1>1
  <2>2. p \in DOMAIN sessions
    BY <2>1 DEF PointerInv, References
  <2>3. /\ sessions[p].info = d /\ k \in PointersTo(sessions[p].kind)
        /\ sessions[p].state = "open"
    BY <2>1 DEF PointerInv, PointersAreOpen
  <2>4. p # o
    BY <2>1, <2>3 DEF c, kind
  <2>. QED
    BY <1>2, <2>2, <2>3, <2>4
<1>6. TwoAreShared'
  BY <1>1, <1>2 DEF PointerInv, TwoAreShared
<1>7. SoleSessionIsRegistered'
  <2>. SUFFICES ASSUME NEW p \in DOMAIN sessions, sessions'[p].state = "open",
                       <<sessions[p].info, sessions[p].kind>> \notin shared,
                       NEW k \in PointersTo(sessions[p].kind)
                PROVE  _childs'[sessions[p].info].session[k] = p
    BY <1>1, <1>2 DEF SoleSessionIsRegistered
  <2>1. /\ p # o /\ sessions[p].state = "open"
        /\ sessions[p].info \in DOMAIN _childs /\ sessions[p].kind \in Kinds
    BY <1>0, <1>2, SessionFields DEF PointerInv, References, ListInv, Objects
  <2>2. _childs[sessions[p].info].session[k] = p
    BY <2>1 DEF PointerInv, SoleSessionIsRegistered
  <2>3. ~ (sessions[p].info = c /\ sessions[p].kind = kind)
    BY <1>1, <2>1 DEF PointerInv, TwoAreShared, c, kind
  <2>4. ~ (sessions[p].info = c /\ k \in PointersTo(kind)) /\ k \in Pointers
    BY <1>1, <2>1, <2>3, DistinctPointers
  <2>. QED
    BY <1>1, <2>1, <2>2, <2>4
<1>. QED
  BY <1>1, <1>3, <1>4, <1>5, <1>6, <1>7 DEF PointerInv

LEMMA PointerInvDestroy ==
  ASSUME PointerInv, NEW t \in Threads, Destroy(t)
  PROVE  PointerInv'
<1> DEFINE o == request[t].session
<1>0. /\ ListInv /\ o \in DOMAIN sessions
      /\ sessions[o].state = "closing" /\ sessions[o].by = t
  BY DEF PointerInv, ClosingSession, Destroy
<1>1. /\ ListInv'
      /\ DOMAIN sessions' = DOMAIN sessions
      /\ \A p \in DOMAIN sessions :
           sessions'[p] = IF p = o THEN [sessions[o] EXCEPT !.state = "freed"] ELSE sessions[p]
      /\ UNCHANGED <<_childs, shared>>
      /\ request' = [request EXCEPT ![t] = Idle]
  BY <1>0, DestroyEffect
<1>. HIDE DEF o
<1>2. \A p \in DOMAIN sessions :
        /\ sessions'[p].info = sessions[p].info /\ sessions'[p].kind = sessions[p].kind
        /\ sessions'[p].by = sessions[p].by
        /\ sessions'[p].state = IF p = o THEN "freed" ELSE sessions[p].state
  BY <1>0, <1>1, SessionFields DEF ListInv, Objects
<1>3. References'
  BY <1>1, <1>2 DEF PointerInv, References
<1>4. ClosingSession'
  <2>1. request'[t].at = "idle" /\ \A u \in Threads : u # t => request'[u] = request[u]
    BY <1>0, <1>1 DEF ListInv, RootTypeOK, Idle
  <2>2. \A u \in Threads : u # t /\ request[u].at = "destroy" => request[u].session # o
    BY <1>0 DEF PointerInv, ClosingSession
  <2>. QED
    BY <1>1, <1>2, <2>1, <2>2 DEF PointerInv, ClosingSession
<1>5. PointersAreOpen'
  <2>. SUFFICES ASSUME NEW d \in DOMAIN _childs, NEW k \in Pointers,
                       NEW p, p = _childs[d].session[k], p # 0, p # Wild
                PROVE  /\ sessions'[p].info = d /\ k \in PointersTo(sessions'[p].kind)
                       /\ sessions'[p].state = "open"
    BY <1>1 DEF PointersAreOpen
  <2>1. /\ p \in DOMAIN sessions
        /\ sessions[p].info = d /\ k \in PointersTo(sessions[p].kind)
        /\ sessions[p].state = "open"
    BY DEF PointerInv, References, PointersAreOpen
  <2>. QED
    BY <1>0, <1>2, <2>1
<1>6. TwoAreShared'
  BY <1>0, <1>1, <1>2 DEF PointerInv, TwoAreShared
<1>7. SoleSessionIsRegistered'
  BY <1>0, <1>1, <1>2 DEF PointerInv, SoleSessionIsRegistered
<1>. QED
  BY <1>1, <1>3, <1>4, <1>5, <1>6, <1>7 DEF PointerInv

\* A new Child_info has null or wild pointers, all of them alike.
LEMMA InsertEffect ==
  ASSUME ListInv, NEW t \in Threads, InsertInfo(t)
  PROVE  /\ Len(_childs) \in Nat /\ Len(_childs') \in Nat /\ Len(_childs) <= Len(_childs')
         /\ DOMAIN _childs = 1 .. Len(_childs) /\ DOMAIN _childs' = 1 .. Len(_childs')
         /\ \A c \in DOMAIN _childs : _childs'[c] = _childs[c]
         /\ \A c \in DOMAIN _childs' \ DOMAIN _childs :
              \E p \in {0, Wild} : \A k \in Pointers : _childs'[c].session[k] = p
<1>0. _childs \in Seq(Infos) /\ Len(_childs) \in Nat /\ DOMAIN _childs = 1 .. Len(_childs)
  BY LenProperties DEF ListInv, RootTypeOK
<1>1. CASE request[t].info # 0
  <2>1. _childs' = _childs
    BY <1>1 DEF InsertInfo
  <2>. QED
    BY <1>0, <2>1
<1>2. CASE request[t].info = 0
  <2>1. PICK p \in FreshPointers :
          _childs' = Append(_childs, [name |-> request[t].name, session |-> [k \in Pointers |-> p]])
    BY <1>2 DEF InsertInfo
  <2> DEFINE i == [name |-> request[t].name, session |-> [k \in Pointers |-> p]]
  <2>2. i \in Infos /\ p \in {0, Wild} /\ \A k \in Pointers : i.session[k] = p
    BY RootAssumption, RequestFields DEF Infos, SessionRequests, Wild, ListInv
  <2>. HIDE DEF i
  <2>3. /\ DOMAIN _childs' = 1 .. Len(_childs) + 1 /\ _childs' \in Seq(Infos)
        /\ \A c \in DOMAIN _childs : _childs'[c] = _childs[c]
        /\ _childs'[Len(_childs) + 1] = i
    BY <1>0, <2>1, <2>2, AppendType DEF i
  <2>4. Len(_childs') = Len(_childs) + 1
    BY <1>0, <2>3, LenProperties
  <2>5. \A c \in DOMAIN _childs' \ DOMAIN _childs : _childs'[c] = i
    BY <1>0, <2>3
  <2>. QED
    BY <1>0, <2>2, <2>3, <2>4, <2>5
<1>. QED
  BY <1>1, <1>2

LEMMA PointerInvInsert ==
  ASSUME PointerInv, NEW t \in Threads, InsertInfo(t)
  PROVE  PointerInv'
<1>0. ListInv /\ ListInv'
  BY ListInvInsert DEF PointerInv
<1>1. /\ UNCHANGED <<sessions, shared>>
      /\ request'[t].at = "construct"
      /\ \A u \in Threads : u # t => request'[u] = request[u]
  BY <1>0 DEF InsertInfo, history, ListInv, RootTypeOK, SessionRequests
<1>2. /\ DOMAIN _childs \subseteq DOMAIN _childs'
      /\ \A c \in DOMAIN _childs : _childs'[c] = _childs[c]
      /\ \A c \in DOMAIN _childs' \ DOMAIN _childs, k \in Pointers :
           _childs'[c].session[k] \in {0, Wild}
  BY <1>0, InsertEffect
<1>3. References'
  BY <1>1, <1>2 DEF PointerInv, References
<1>4. ClosingSession'
  BY <1>1 DEF PointerInv, ClosingSession
<1>5. PointersAreOpen'
  BY <1>1, <1>2 DEF PointerInv, PointersAreOpen
<1>6. TwoAreShared' /\ SoleSessionIsRegistered'
  BY <1>1, <1>2 DEF PointerInv, TwoAreShared, SoleSessionIsRegistered, References
<1>. QED
  BY <1>0, <1>3, <1>4, <1>5, <1>6 DEF PointerInv

\* The other steps change neither pointers nor sessions.
LEMMA PointerInvKept ==
  ASSUME PointerInv, ListInv', UNCHANGED <<_childs, sessions, shared>>,
         \A t \in Threads : request'[t] = request[t] \/ request'[t].at # "destroy"
  PROVE  PointerInv'
<1>1. ClosingSession'
  BY DEF PointerInv, ClosingSession
<1>. QED
  BY <1>1 DEF PointerInv, References, PointersAreOpen, TwoAreShared, SoleSessionIsRegistered

LEMMA PointerInvStep ==
  ASSUME PointerInv, [ChildNext]_allVars
  PROVE  PointerInv'
<1>0. ListInv /\ RootTypeOK
  BY DEF PointerInv, ListInv
<1>1. CASE Walked
  <2>1. ListInv'
    BY <1>0, <1>1, ListInvWalked
  <2>. QED
    BY <1>1, <2>1, PointerInvKept DEF Walked
<1>2. ASSUME NEW t \in Threads, ThreadStep(t)
      PROVE  PointerInv'
  <2>1. CASE Created(t)
    <3>1. ListInv'
      BY <1>0, <2>1, ListInvCreated
    <3>2. \A u \in Threads : request'[u] = request[u] \/ request'[u].at # "destroy"
      BY <1>0, <2>1 DEF Created, RootTypeOK, Idle
    <3>. QED
      BY <2>1, <3>1, <3>2, PointerInvKept DEF Created
  <2>2. CASE FindInfo(t)
    <3>1. ListInv'
      BY <1>0, <2>2, ListInvFind
    <3>2. \A u \in Threads : request'[u] = request[u] \/ request'[u].at # "destroy"
      BY <1>0, <2>2 DEF FindInfo, RootTypeOK, SessionRequests
    <3>. QED
      BY <2>2, <3>1, <3>2, PointerInvKept DEF FindInfo, history
  <2>3. CASE InsertInfo(t)
    BY <2>3, PointerInvInsert
  <2>4. CASE Construct(t)
    BY <2>4, PointerInvConstruct
  <2>5. CASE Destroy(t)
    BY <2>5, PointerInvDestroy
  <2>6. CASE \E o \in DOMAIN sessions : Unregister(t, o)
    BY <2>6, PointerInvUnregister
  <2>. QED
    BY <1>2, <2>1, <2>2, <2>3, <2>4, <2>5, <2>6 DEF ThreadStep
<1>3. CASE Elsewhere \/ UNCHANGED allVars
  <2>1. Walked
    BY <1>0, <1>3 DEF Elsewhere, Walked, RootTypeOK, allVars, vars, rootVars, walkVars, history
  <2>. QED
    BY <1>1, <2>1
<1>. QED
  BY <1>0, <1>1, <1>2, <1>3, ChildNextSteps, InitModuleStep

-----------------------------------------------------------------------------
(* The bound on the sessions, by which no session is mistaken for a wild     *)
(* pointer.                                                                  *)

SessionsAreFew == Len(sessions) + Cardinality(Opening) <= MaxSessions

LEMMA OpeningIsFinite ==
  IsFiniteSet(Opening) /\ Cardinality(Opening) \in Nat
BY FS_Subset, FS_CardinalityType, RootAssumption DEF Opening

\* A thread leaves the requests that will end with a new session, or joins them.
LEMMA OpeningSteps ==
  ASSUME NEW t \in Threads, \A u \in Threads \ {t} : request'[u] = request[u]
  PROVE  Opening' = IF request'[t].at \in {"find", "insert", "construct"}
                    THEN Opening \cup {t} ELSE Opening \ {t}
BY DEF Opening

LEMMA SessionsStayFew ==
  ASSUME PointerInv, SessionsAreFew, NEW t \in Threads, ThreadStep(t)
  PROVE  SessionsAreFew'
<1>0. /\ ListInv /\ RootTypeOK /\ Len(sessions) \in Nat /\ DOMAIN sessions = 1 .. Len(sessions)
      /\ IsFiniteSet(Opening) /\ Cardinality(Opening) \in Nat
      /\ MaxSessions \in Nat
  BY OpeningIsFinite, LenProperties, RootAssumption DEF PointerInv, ListInv, RootTypeOK
<1>1. CASE Created(t)
  <2>1. /\ sessions' = sessions /\ request[t].at = "idle" /\ request'[t].at = "find"
        /\ \A u \in Threads \ {t} : request'[u] = request[u]
        /\ Len(sessions) + Cardinality(Opening) < MaxSessions
    BY <1>0, <1>1 DEF Created, RootTypeOK, Idle
  <2>2. Opening' = Opening \cup {t} /\ t \notin Opening
    BY <2>1, OpeningSteps DEF Opening
  <2>3. Cardinality(Opening \cup {t}) = Cardinality(Opening) + 1
    BY <1>0, <2>2, FS_AddElement
  <2>. QED
    BY <1>0, <2>1, <2>2, <2>3 DEF SessionsAreFew
<1>2. CASE FindInfo(t) \/ InsertInfo(t)
  <2>1. /\ sessions' = sessions
        /\ request[t].at \in {"find", "insert"} /\ request'[t].at \in {"insert", "construct"}
        /\ \A u \in Threads \ {t} : request'[u] = request[u]
    BY <1>0, <1>2 DEF FindInfo, InsertInfo, RootTypeOK, SessionRequests
  <2>2. Opening' = Opening
    BY <2>1, OpeningSteps DEF Opening
  <2>. QED
    BY <2>1, <2>2 DEF SessionsAreFew
<1>3. CASE Construct(t)
  <2>1. /\ request[t].at = "construct" /\ request'[t].at = "idle"
        /\ \A u \in Threads \ {t} : request'[u] = request[u]
    BY <1>0, <1>3 DEF Construct, RootTypeOK, Idle
  <2>2. Opening' = Opening \ {t} /\ t \in Opening
    BY <2>1, OpeningSteps DEF Opening
  <2>3. Cardinality(Opening \ {t}) = Cardinality(Opening) - 1
    BY <1>0, <2>2, FS_RemoveElement
  <2>4. Len(sessions') = Len(sessions) + 1
    <3>1. \E o : sessions' = Append(sessions, o)
      BY <1>3 DEF Construct
    <3>. QED
      BY <1>0, <3>1 DEF RootTypeOK
  <2>. QED
    BY <1>0, <2>2, <2>3, <2>4 DEF SessionsAreFew
<1>4. ASSUME request[t].at \in {"destroy", "idle"}, DOMAIN sessions' = DOMAIN sessions,
             request'[t].at \in {"idle", "destroy"},
             \A u \in Threads \ {t} : request'[u] = request[u],
             ListInv'
      PROVE  SessionsAreFew'
  <2>2. Opening' = Opening
    BY <1>4, OpeningSteps DEF Opening
  <2>3. Len(sessions') = Len(sessions)
    BY <1>0, <1>4, LenProperties DEF ListInv, RootTypeOK
  <2>. QED
    BY <2>2, <2>3 DEF SessionsAreFew
<1>5. CASE Destroy(t)
  <2>1. Idle.at = "idle" /\ request[t].at = "destroy" /\ request[t].session \in DOMAIN sessions
    BY <1>5 DEF Destroy, Idle, PointerInv, ClosingSession
  <2>2. ListInv' /\ DOMAIN sessions' = DOMAIN sessions /\ request' = [request EXCEPT ![t] = Idle]
    BY <1>0, <1>5, <2>1, DestroyEffect
  <2>3. request'[t].at = "idle" /\ \A u \in Threads \ {t} : request'[u] = request[u]
    BY <1>0, <2>1, <2>2 DEF RootTypeOK
  <2>. QED
    BY <1>4, <2>1, <2>2, <2>3
<1>6. ASSUME NEW o \in DOMAIN sessions, Unregister(t, o)
      PROVE  SessionsAreFew'
  <2> DEFINE next == [Idle EXCEPT !.at = "destroy", !.session = o]
  <2>1. next.at = "destroy" /\ request[t].at = "idle"
    BY <1>6 DEF Unregister, Idle
  <2>2. sessions[o].info \in DOMAIN _childs
    BY DEF PointerInv, References
  <2>3. ListInv' /\ DOMAIN sessions' = DOMAIN sessions /\ request' = [request EXCEPT ![t] = next]
    BY <1>0, <1>6, <2>2, UnregisterEffect
  <2>. HIDE DEF next
  <2>4. request'[t].at = "destroy" /\ \A u \in Threads \ {t} : request'[u] = request[u]
    BY <1>0, <2>1, <2>3 DEF RootTypeOK
  <2>. QED
    BY <1>4, <2>1, <2>3, <2>4
<1>. QED
  BY <1>1, <1>2, <1>3, <1>5, <1>6 DEF ThreadStep

-----------------------------------------------------------------------------
(* The walks of Init_module. *)

WalkTypeOK ==
  /\ walk.at \in {"idle", "load", "run"} \cup Walks
  /\ walk.child \in 0 .. Len(_childs)
  /\ walk.copy \in [Pointers -> {0, Wild} \cup DOMAIN sessions]
  /\ walk.started \in SUBSET Pointers /\ walk.joined \in SUBSET Pointers
  /\ walk.at = "run" => walk.child > 0
  /\ walk.at # "run" => \A k \in Pointers : walk.copy[k] = 0
  /\ running \in SUBSET Pointers
  /\ before \in 0 .. Len(sessions)

\* The Pd_session sets and resets its pointer with that of the capability mapping.
PointersInPairs ==
  \A c \in DOMAIN _childs :
    _childs[c].session["pd"] = _childs[c].session["capability_mapping"]

\* As long as no session is closed the copies name open sessions.
CopiesAreOpen ==
  ~ closed => \A k \in Pointers :
    walk.copy[k] \notin {0, Wild} => sessions[walk.copy[k]].state = "open"

\* A pointer that every child must have is null for a reason.
HasCause(c) ==
  \E k \in {"pd", "cpu"} : <<c, k>> \in shared \/ Open(c, k) \cap 1..before = {}

NullsHaveACause ==
  walk.at = "run" => \A k \in Mandatory : walk.copy[k] = 0 => HasCause(walk.child)

\* What is due lies ahead of the walk, or is a session of the child it has come
\* to whose worker has not been joined.
IsAhead(k, o) ==
  LET c == sessions[o].info
  IN  /\ k \in Pointers /\ o \in DOMAIN sessions
      /\ _childs[c].session[k] = o
      /\ c <= walk.child
      /\ walk.at = "run" /\ c = walk.child =>
           /\ walk.copy[k] = o
           /\ fault = "none" => k \notin walk.joined /\ (k \in walk.started => k \in running)

DueIsAhead ==
  /\ walk.at \notin {"load", "run"} => due = {}
  /\ \A d \in due : d = <<d[1], d[2]>> /\ IsAhead(d[1], d[2])

WalkInv ==
  /\ PointerInv
  /\ SessionsAreFew
  /\ WalkTypeOK
  /\ PointersInPairs
  /\ CopiesAreOpen
  /\ NullsHaveACause
  /\ DueIsAhead
  /\ FaultsHaveACause

\* The facts about lists and sessions that the steps rely on.
LEMMA WalkFacts ==
  ASSUME WalkInv
  PROVE  /\ Len(_childs) \in Nat /\ DOMAIN _childs = 1 .. Len(_childs)
         /\ Len(sessions) \in Nat /\ DOMAIN sessions = 1 .. Len(sessions)
         /\ Len(sessions) <= MaxSessions
         /\ \A o \in DOMAIN sessions : o # 0 /\ o # Wild /\ sessions[o].info \in DOMAIN _childs
         /\ \A c \in DOMAIN _childs, k \in Pointers :
              _childs[c].session[k] \in {0, Wild} \cup DOMAIN sessions
         /\ Mandatory \subseteq Pointers /\ Kinds \subseteq Pointers
         /\ Wild # 0
<1>1. /\ Len(_childs) \in Nat /\ DOMAIN _childs = 1 .. Len(_childs)
      /\ Len(sessions) \in Nat /\ DOMAIN sessions = 1 .. Len(sessions)
  BY LenProperties DEF WalkInv, PointerInv, ListInv, RootTypeOK
<1>2. Len(sessions) <= MaxSessions /\ MaxSessions \in Nat
  BY <1>1, OpeningIsFinite, RootAssumption DEF WalkInv, SessionsAreFew
<1>. QED
  BY <1>1, <1>2 DEF WalkInv, PointerInv, References, Wild, Mandatory, Pointers, Kinds

\* A session that is registered is so with its own child only.
LEMMA RegisteredOnce ==
  ASSUME PointerInv, SessionsAreFew, NEW k, NEW o, <<k, o>> \in Registered
  PROVE  /\ k \in Pointers /\ o \in DOMAIN sessions
         /\ sessions[o].info \in DOMAIN _childs
         /\ _childs[sessions[o].info].session[k] = o
<1>1. /\ k \in Pointers /\ o \in DOMAIN sessions
      /\ \E c \in DOMAIN _childs : _childs[c].session[k] = o
  BY DEF Registered
<1>2. PICK c \in DOMAIN _childs : _childs[c].session[k] = o
  BY <1>1
<1>3. Len(sessions) \in Nat /\ DOMAIN sessions = 1 .. Len(sessions)
  BY LenProperties DEF PointerInv, ListInv, RootTypeOK
<1>4. o # 0 /\ o # Wild
  BY <1>1, <1>3, OpeningIsFinite, RootAssumption DEF SessionsAreFew, Wild
<1>5. sessions[o].info = c
  BY <1>1, <1>2, <1>4 DEF PointerInv, PointersAreOpen
<1>. QED
  BY <1>1, <1>2, <1>5

\* A null pointer of a child has a cause now.
LEMMA NullHasCause ==
  ASSUME WalkInv, NEW c \in DOMAIN _childs, NEW k \in Mandatory, _childs[c].session[k] = 0
  PROVE  HasCause(c)
<1>1. PICK kind \in {"pd", "cpu"} : kind \in PointersTo(kind) /\ _childs[c].session[kind] = 0
  BY DEF Mandatory, PointersTo, WalkInv, PointersInPairs
<1>2. ASSUME NEW o \in Open(c, kind), <<c, kind>> \notin shared
      PROVE  FALSE
  <2>1. o \in DOMAIN sessions /\ sessions[o].info = c /\ sessions[o].kind = kind
        /\ sessions[o].state = "open"
    BY <1>2 DEF Open
  <2>2. _childs[c].session[kind] = o
    BY <1>1, <1>2, <2>1 DEF WalkInv, PointerInv, SoleSessionIsRegistered
  <2>. QED
    BY <1>1, <2>1, <2>2, WalkFacts
<1>. QED
  BY <1>2 DEF HasCause

\* What becomes of a thread that follows a pointer.
LEMMA FaultCases ==
  ASSUME WalkInv, NEW o \in {0, Wild} \cup DOMAIN sessions
  PROVE  /\ FaultOf(o) = "null" => o = 0
         /\ FaultOf(o) = "freed" => o \notin {0, Wild} /\ sessions[o].state = "freed"
<1>1. CASE o = 0
  BY <1>1 DEF FaultOf
<1>2. CASE o = Wild
  BY <1>2, WalkFacts DEF FaultOf
<1>3. CASE o \notin {0, Wild}
  BY <1>3 DEF FaultOf
<1>. QED
  BY <1>1, <1>2, <1>3

\* What the steps of Init_module leave as it is.
LEMMA InitModuleFrame ==
  ASSUME WalkInv, Init_module
  PROVE  /\ UNCHANGED <<_childs, sessions, request, shared>>
         /\ PointerInv' /\ SessionsAreFew' /\ PointersInPairs'
         /\ \A c, k : Open(c, k)' = Open(c, k)
<1>1. Walked /\ UNCHANGED <<_childs, sessions, request, shared>>
  BY InitModuleStep DEF WalkInv, PointerInv, ListInv, Walked
<1>2. PointerInv'
  BY <1>1, ListInvWalked, PointerInvKept DEF WalkInv, PointerInv
<1>3. SessionsAreFew'
  BY <1>1 DEF WalkInv, SessionsAreFew, Opening
<1>4. PointersInPairs'
  BY <1>1 DEF WalkInv, PointersInPairs
<1>5. \A c, k : Open(c, k)' = Open(c, k)
  BY <1>1 DEF Open
<1>. QED
  BY <1>1, <1>2, <1>3, <1>4, <1>5

\* A walk that stands between the children has copied nothing.
LEMMA StillFields ==
  ASSUME NEW at, NEW child
  PROVE  LET w == [Still EXCEPT !.at = at, !.child = child]
         IN  /\ w.at = at /\ w.child = child
             /\ w.copy \in [Pointers -> {0}] /\ w.started = {} /\ w.joined = {}
BY DEF Still

\* The session that comes next is one the copies name or one that a child must have.
LEMMA FirstPendingWaits ==
  ASSUME NEW S, Pending(S) # {}
  PROVE  LET k == FirstPending(S)
         IN  k \in Pointers /\ k \notin S /\ (k \in Mandatory \/ walk.copy[k] # 0)
<1>1. Pending(S) \in SUBSET (1 .. 7)
  BY DEF Pending, Order
<1>2. Min(Pending(S)) \in Pending(S)
  BY <1>1, NatHasLeast DEF Min
<1>3. \A i \in DOMAIN Order : Order[i] \in Pointers
  BY DEF Order, Pointers, Kinds
<1>. QED
  BY <1>2, <1>3 DEF FirstPending, Pending

\* Nothing is left of a child when no session is pending.
LEMMA NonePending ==
  ASSUME NEW S, Pending(S) = {}, NEW k \in Pointers, k \notin S
  PROVE  walk.copy[k] = 0
<1>1. \E i \in DOMAIN Order : Order[i] = k
  BY DEF Order, Pointers, Kinds
<1>. QED
  BY <1>1 DEF Pending

\* checkpoint() begins, goes on to the next child, or a walk begins.
LEMMA WalkBegins ==
  ASSUME WalkInv, fault = "none", CallCheckpoint \/ (\E op \in Walks : CallWalk(op)) \/ WalkReturns
  PROVE  WalkInv'
<1>0. /\ UNCHANGED <<_childs, sessions, request, shared>>
      /\ PointerInv' /\ SessionsAreFew' /\ PointersInPairs'
  BY InitModuleFrame DEF Init_module
<1>1. /\ walk'.copy \in [Pointers -> {0}] /\ walk'.started = {} /\ walk'.joined = {}
      /\ walk'.at \in {"idle", "load"} \cup Walks /\ walk'.at # "run"
      /\ walk'.child \in 0 .. Len(_childs)
      /\ before' \in 0 .. Len(sessions)
      /\ UNCHANGED <<running, fault>>
  <2>0. "run" \notin Walks /\ Len(_childs) \in 0 .. Len(_childs) /\ Len(sessions) \in 0 .. Len(sessions)
    BY WalkFacts DEF Walks
  <2>1. ASSUME NEW at \in {"load"} \cup Walks, walk' = [Still EXCEPT !.at = at, !.child = Len(_childs)]
        PROVE  /\ walk'.copy \in [Pointers -> {0}] /\ walk'.started = {} /\ walk'.joined = {}
               /\ walk'.at \in {"idle", "load"} \cup Walks /\ walk'.at # "run"
               /\ walk'.child \in 0 .. Len(_childs)
    <3>1. at # "run"
      BY <2>0
    <3>. HIDE DEF Walks
    <3>. QED
      BY <2>0, <2>1, <3>1, StillFields
  <2>2. CASE CallCheckpoint
    BY <2>0, <2>1, <2>2 DEF CallCheckpoint
  <2>3. ASSUME NEW op \in Walks, CallWalk(op)
        PROVE  /\ walk' = [Still EXCEPT !.at = op, !.child = Len(_childs)]
               /\ before' = Len(sessions) /\ UNCHANGED <<running, fault>>
    BY <2>3 DEF CallWalk
  <2>4. CASE \E op \in Walks : CallWalk(op)
    BY <2>0, <2>1, <2>3, <2>4
  <2>5. CASE WalkReturns
    BY <2>5, WalkFacts DEF WalkReturns, Still
  <2>. QED
    BY <2>2, <2>4, <2>5
<1>3. WalkTypeOK'
  <2>. QED
    BY <1>0, <1>1 DEF WalkInv, WalkTypeOK
<1>4. CopiesAreOpen' /\ NullsHaveACause' /\ FaultsHaveACause'
  BY <1>1 DEF CopiesAreOpen, NullsHaveACause, FaultsHaveACause
<1>5. DueIsAhead'
  <2>1. CASE CallCheckpoint
    <3>1. due' = Registered /\ walk'.at = "load" /\ walk'.child = Len(_childs)
      BY <2>1, StillFields DEF CallCheckpoint
    <3>2. ASSUME NEW d \in Registered PROVE d = <<d[1], d[2]>> /\ IsAhead(d[1], d[2])'
      <4>1. d = <<d[1], d[2]>>
        BY DEF Registered
      <4>. QED
        BY <1>0, <3>1, <3>2, <4>1, RegisteredOnce, WalkFacts DEF WalkInv, IsAhead
    <3>. QED
      BY <3>1, <3>2 DEF DueIsAhead
  <2>2. CASE (\E op \in Walks : CallWalk(op)) \/ WalkReturns
    <3>1. due' = {}
      BY <2>2 DEF CallWalk, WalkReturns, WalkInv, DueIsAhead
    <3>. QED
      BY <3>1 DEF DueIsAhead
  <2>. QED
    BY <2>1, <2>2
<1>. QED
  BY <1>0, <1>3, <1>4, <1>5 DEF WalkInv

LEMMA LoadKeepsWalkInv ==
  ASSUME WalkInv, fault = "none", LoadPointers
  PROVE  WalkInv'
<1>0. /\ UNCHANGED <<_childs, sessions, request, shared>>
      /\ PointerInv' /\ SessionsAreFew' /\ PointersInPairs'
      /\ \A c, k : Open(c, k)' = Open(c, k)
  BY InitModuleFrame DEF Init_module
<1> DEFINE c == walk.child
<1>1. /\ walk.at = "load" /\ c > 0 /\ c \in DOMAIN _childs
      /\ walk'.at = "run" /\ walk'.child = c /\ walk'.copy = _childs[c].session
      /\ walk'.started = {} /\ walk'.joined = {}
      /\ UNCHANGED <<running, fault, due, closed, before>>
  BY WalkFacts DEF LoadPointers, history, Still, WalkInv, WalkTypeOK
<1>2. _childs[c].session \in [Pointers -> {0, Wild} \cup DOMAIN sessions]
  <2>1. _childs[c] \in Infos
    BY <1>1, ElementOfSeq DEF WalkInv, PointerInv, ListInv, RootTypeOK
  <2>2. _childs[c].session \in [Pointers -> Nat]
    BY <2>1 DEF Infos
  <2>. QED
    BY <1>1, <2>2, WalkFacts
<1>3. WalkTypeOK'
  BY <1>0, <1>1, <1>2 DEF WalkInv, WalkTypeOK
<1>4. CopiesAreOpen'
  <2>1. \A k \in Pointers : _childs[c].session[k] \notin {0, Wild} =>
          sessions[_childs[c].session[k]].state = "open"
    BY <1>1 DEF WalkInv, PointerInv, PointersAreOpen
  <2>. QED
    BY <1>0, <1>1, <2>1 DEF CopiesAreOpen
<1>5. NullsHaveACause'
  BY <1>0, <1>1, NullHasCause DEF NullsHaveACause, HasCause
<1>6. FaultsHaveACause'
  BY <1>1 DEF FaultsHaveACause
<1>7. DueIsAhead'
  <2>1. ASSUME NEW d \in due PROVE d = <<d[1], d[2]>> /\ IsAhead(d[1], d[2])'
    <3>1. d = <<d[1], d[2]>> /\ IsAhead(d[1], d[2])
      BY <2>1 DEF WalkInv, DueIsAhead
    <3>. QED
      BY <1>0, <1>1, <3>1 DEF IsAhead
  <2>. QED
    BY <1>1, <2>1 DEF DueIsAhead
<1>. QED
  BY <1>0, <1>3, <1>4, <1>5, <1>6, <1>7 DEF WalkInv

\* A fault that a copy leads to has its cause.
LEMMA CopyFaults ==
  ASSUME WalkInv, walk.at = "run", NEW k \in Pointers, k \in Mandatory \/ walk.copy[k] # 0
  PROVE  /\ FaultOf(walk.copy[k]) = "freed" => closed
         /\ FaultOf(walk.copy[k]) = "null" => HasCause(walk.child)
<1>1. walk.copy[k] \in {0, Wild} \cup DOMAIN sessions
  BY DEF WalkInv, WalkTypeOK
<1>2. FaultOf(walk.copy[k]) = "freed" => closed
  BY <1>1, FaultCases DEF WalkInv, CopiesAreOpen
<1>3. FaultOf(walk.copy[k]) = "null" => HasCause(walk.child)
  BY <1>1, FaultCases DEF WalkInv, NullsHaveACause
<1>. QED
  BY <1>2, <1>3

\* The workers are started and joined.
LEMMA StartKeepsWalkInv ==
  ASSUME WalkInv, fault = "none", StartSession \/ JoinSession
  PROVE  WalkInv'
<1>0. /\ UNCHANGED <<_childs, sessions, request, shared>>
      /\ PointerInv' /\ SessionsAreFew' /\ PointersInPairs'
      /\ \A c, k : Open(c, k)' = Open(c, k)
  BY InitModuleFrame DEF Init_module
<1>1. PICK k \in Pointers :
        /\ k \in Mandatory \/ walk.copy[k] # 0
        /\ fault' = FaultOf(walk.copy[k])
        /\ \/ /\ walk' = [walk EXCEPT !.started = @ \cup {k}]
              /\ running' = IF fault' = "none" THEN running \cup {k} ELSE running
           \/ /\ walk' = [walk EXCEPT !.joined = @ \cup {k}]
              /\ running' = running /\ k \in walk.started /\ k \notin running
  <2>1. CASE StartSession
    BY <2>1, FirstPendingWaits DEF StartSession
  <2>2. CASE JoinSession
    BY <2>2, FirstPendingWaits DEF JoinSession
  <2>. QED
    BY <2>1, <2>2
<1>2. walk.at = "run" /\ UNCHANGED <<due, closed, before>>
  BY DEF StartSession, JoinSession, history
<1>3. /\ walk'.at = "run" /\ walk'.child = walk.child /\ walk'.copy = walk.copy
      /\ \/ /\ walk'.started = walk.started \cup {k} /\ walk'.joined = walk.joined
            /\ running' = IF fault' = "none" THEN running \cup {k} ELSE running
         \/ /\ walk'.joined = walk.joined \cup {k} /\ walk'.started = walk.started
            /\ running' = running /\ k \in walk.started /\ k \notin running
  BY <1>1, <1>2 DEF WalkInv, PointerInv, ListInv, RootTypeOK
<1>4. WalkTypeOK'
  <2>1. walk'.started \in SUBSET Pointers /\ walk'.joined \in SUBSET Pointers
        /\ running' \in SUBSET Pointers
    <3>1. running \subseteq Pointers /\ walk.started \subseteq Pointers /\ walk.joined \subseteq Pointers
      BY DEF WalkInv, WalkTypeOK
    <3>2. running' \subseteq running \cup {k}
      BY <1>3
    <3>. QED
      BY <1>3, <3>1, <3>2
  <2>. QED
    BY <1>0, <1>2, <1>3, <2>1 DEF WalkInv, WalkTypeOK
<1>5. CopiesAreOpen'
  BY <1>0, <1>2, <1>3 DEF WalkInv, CopiesAreOpen
<1>6. NullsHaveACause'
  BY <1>0, <1>2, <1>3 DEF WalkInv, NullsHaveACause, HasCause
<1>7. FaultsHaveACause'
  <2>1. fault' = "freed" => closed
    BY <1>1, <1>2, CopyFaults
  <2>2. fault' = "null" => HasCause(walk.child)
    BY <1>1, <1>2, CopyFaults
  <2>3. walk.child \in DOMAIN _childs
    <3>1. walk.child > 0 /\ walk.child \in 0 .. Len(_childs)
      BY <1>2 DEF WalkInv, WalkTypeOK
    <3>. QED
      BY <3>1, WalkFacts
  <2>. QED
    BY <1>0, <1>2, <2>1, <2>2, <2>3 DEF FaultsHaveACause, HasCause
<1>8. DueIsAhead'
  <2>. SUFFICES ASSUME NEW d \in due
                PROVE  d = <<d[1], d[2]>> /\ IsAhead(d[1], d[2])'
    BY <1>2, <1>3 DEF DueIsAhead
  <2>1. d = <<d[1], d[2]>> /\ IsAhead(d[1], d[2])
    BY DEF WalkInv, DueIsAhead
  <2>. QED
    BY <1>0, <1>2, <1>3, <2>1 DEF IsAhead
<1>. QED
  BY <1>0, <1>4, <1>5, <1>6, <1>7, <1>8 DEF WalkInv

LEMMA NextChildKeepsWalkInv ==
  ASSUME WalkInv, fault = "none", NextChild
  PROVE  WalkInv'
<1>0. /\ UNCHANGED <<_childs, sessions, request, shared>>
      /\ PointerInv' /\ SessionsAreFew' /\ PointersInPairs'
  BY InitModuleFrame DEF Init_module
<1>1. /\ walk.at = "run" /\ Pending(walk.joined) = {}
      /\ walk' = [Still EXCEPT !.at = "load", !.child = walk.child - 1]
      /\ UNCHANGED <<running, fault, due, closed, before>>
  BY DEF NextChild, history
<1>2. /\ walk'.at = "load" /\ walk'.child = walk.child - 1
      /\ walk'.copy \in [Pointers -> {0}] /\ walk'.started = {} /\ walk'.joined = {}
  BY <1>1, StillFields
<1>3. walk.child \in 1 .. Len(_childs) /\ Len(_childs) \in Nat
  BY <1>1, WalkFacts DEF WalkInv, WalkTypeOK
<1>4. WalkTypeOK'
  BY <1>0, <1>1, <1>2, <1>3 DEF WalkInv, WalkTypeOK
<1>5. CopiesAreOpen' /\ NullsHaveACause' /\ FaultsHaveACause'
  BY <1>1, <1>2 DEF CopiesAreOpen, NullsHaveACause, FaultsHaveACause
<1>6. DueIsAhead'
  <2>. SUFFICES ASSUME NEW d \in due
                PROVE  d = <<d[1], d[2]>> /\ IsAhead(d[1], d[2])'
    BY <1>1, <1>2 DEF DueIsAhead
  <2>1. d = <<d[1], d[2]>> /\ IsAhead(d[1], d[2])
    BY DEF WalkInv, DueIsAhead
  <2>2. d[1] \in Pointers /\ d[2] \in DOMAIN sessions /\ sessions[d[2]].info \in 1 .. Len(_childs)
        /\ d[2] # 0
    BY <2>1, WalkFacts DEF IsAhead
  <2>3. sessions[d[2]].info # walk.child
    BY <1>1, <2>1, <2>2, NonePending DEF IsAhead
  <2>. QED
    BY <1>0, <1>2, <1>3, <2>1, <2>2, <2>3 DEF IsAhead
<1>. QED
  BY <1>0, <1>4, <1>5, <1>6 DEF WalkInv

\* pause(), report() and print() follow the pointers of the child itself.
LEMMA VisitKeepsWalkInv ==
  ASSUME WalkInv, fault = "none", Visit
  PROVE  WalkInv'
<1>0. /\ UNCHANGED <<_childs, sessions, request, shared>>
      /\ PointerInv' /\ SessionsAreFew' /\ PointersInPairs'
      /\ \A c, k : Open(c, k)' = Open(c, k)
  BY InitModuleFrame DEF Init_module
<1> DEFINE c == walk.child
<1>1. PICK op \in Walks, used \in SUBSET Pointers :
        /\ VisitChild(op, used)
        /\ \A k \in used : k \in Mandatory \/ _childs[c].session[k] # 0
  BY DEF Visit, Walks, pause, report, print, IsSet, Mandatory, Pointers, Kinds
<1>2. c > 0 /\ c \in 0 .. Len(_childs) /\ c \in DOMAIN _childs /\ Len(_childs) \in Nat
  BY WalkFacts DEF Visit, WalkInv, WalkTypeOK
<1>3. /\ walk.at = op /\ walk' = [walk EXCEPT !.child = @ - 1]
      /\ UNCHANGED <<running, due, closed, before>>
      /\ fault' = "none" \/ \E k \in used : fault' = FaultOf(_childs[c].session[k])
  BY <1>1 DEF VisitChild, history
<1>4. /\ walk'.at = walk.at /\ walk'.child = c - 1 /\ walk'.copy = walk.copy
      /\ walk'.started = walk.started /\ walk'.joined = walk.joined
      /\ walk.at # "run" /\ walk.at # "load"
  BY <1>1, <1>3 DEF WalkInv, PointerInv, ListInv, RootTypeOK, Walks
<1>5. WalkTypeOK'
  BY <1>0, <1>2, <1>3, <1>4 DEF WalkInv, WalkTypeOK
<1>6. CopiesAreOpen' /\ NullsHaveACause' /\ DueIsAhead'
  BY <1>0, <1>3, <1>4 DEF WalkInv, CopiesAreOpen, NullsHaveACause, DueIsAhead
<1>7. FaultsHaveACause'
  <2>1. ASSUME NEW k \in used, fault' = FaultOf(_childs[c].session[k])
        PROVE  fault' # "freed" /\ (fault' = "null" => HasCause(c))
    <3>1. _childs[c].session[k] \in {0, Wild} \cup DOMAIN sessions
      BY <1>2, WalkFacts
    <3>2. fault' # "freed"
      BY <1>2, <2>1, <3>1, FaultCases DEF WalkInv, PointerInv, PointersAreOpen
    <3>3. fault' = "null" => HasCause(c)
      BY <1>1, <1>2, <2>1, <3>1, FaultCases, NullHasCause
    <3>. QED
      BY <3>2, <3>3
  <2>2. fault' # "freed" /\ (fault' = "null" => HasCause(c))
    BY <1>3, <2>1
  <2>. QED
    BY <1>0, <1>2, <1>3, <2>2 DEF FaultsHaveACause, HasCause
<1>. QED
  BY <1>0, <1>5, <1>6, <1>7 DEF WalkInv

LEMMA WorkerKeepsWalkInv ==
  ASSUME WalkInv, fault = "none", NEW k \in running, WorkerDone(k)
  PROVE  WalkInv'
<1>0. /\ UNCHANGED <<_childs, sessions, request, shared>>
      /\ PointerInv' /\ SessionsAreFew' /\ PointersInPairs'
      /\ \A c, kind : Open(c, kind)' = Open(c, kind)
  BY InitModuleFrame DEF Init_module
<1>1. /\ running' = running \ {k} /\ due' = due \ {<<k, walk.copy[k]>>}
      /\ UNCHANGED <<walk, fault, closed, before>>
  BY DEF WorkerDone
<1>2. WalkTypeOK'
  BY <1>0, <1>1 DEF WalkInv, WalkTypeOK
<1>3. CopiesAreOpen' /\ NullsHaveACause' /\ FaultsHaveACause'
  BY <1>0, <1>1 DEF WalkInv, CopiesAreOpen, NullsHaveACause, HasCause, FaultsHaveACause
<1>4. DueIsAhead'
  <2>1. ASSUME NEW d \in due'
        PROVE  d = <<d[1], d[2]>> /\ IsAhead(d[1], d[2])'
    <3>1. d = <<d[1], d[2]>> /\ IsAhead(d[1], d[2]) /\ d # <<k, walk.copy[k]>>
      BY <1>1, <2>1 DEF WalkInv, DueIsAhead
    <3>. QED
      BY <1>0, <1>1, <3>1 DEF IsAhead
  <2>. QED
    BY <1>1, <2>1 DEF WalkInv, DueIsAhead
<1>. QED
  BY <1>0, <1>2, <1>3, <1>4 DEF WalkInv

-----------------------------------------------------------------------------
(* The walks, while the entrypoints handle requests. *)

\* What holds of the registered in this state holds of them in the next.
LEMMA RegisteredOnceNext ==
  ASSUME PointerInv', SessionsAreFew', NEW k, NEW o, <<k, o>> \in Registered'
  PROVE  _childs'[sessions'[o].info].session[k] = o
<1>1. o \in DOMAIN sessions' /\ k \in Pointers
  BY DEF Registered
<1>2. PICK c \in DOMAIN _childs' : _childs'[c].session[k] = o
  BY DEF Registered
<1>3. Len(sessions') \in Nat /\ DOMAIN sessions' = 1 .. Len(sessions')
  BY LenProperties DEF PointerInv, ListInv, RootTypeOK
<1>4. Cardinality(Opening') \in Nat
  <2>1. Opening' \in SUBSET Threads
    BY DEF Opening
  <2>. QED
    BY <2>1, FS_Subset, FS_CardinalityType, RootAssumption
<1>5. o # 0 /\ o # Wild
  BY <1>1, <1>3, <1>4, RootAssumption DEF SessionsAreFew, Wild
<1>6. sessions'[o].info = c
  BY <1>1, <1>2, <1>5 DEF PointerInv, PointersAreOpen
<1>. QED
  BY <1>2, <1>6

\* The requests change neither what the walk has copied nor, but for the sessions that
\* are closed, what is due.
LEMMA RequestsKeepWalkInv ==
  ASSUME WalkInv, PointerInv', SessionsAreFew', PointersInPairs',
         UNCHANGED <<walk, running, before>>,
         Len(_childs') \in Nat, Len(_childs) <= Len(_childs'),
         Len(sessions') \in Nat, Len(sessions) <= Len(sessions'),
         \A o \in DOMAIN sessions :
           /\ sessions'[o].info = sessions[o].info /\ sessions'[o].kind = sessions[o].kind
           /\ sessions'[o].state = "open" => sessions[o].state = "open",
         shared \subseteq shared', due' \subseteq due, fault = "none",
         \A d \in due' : _childs'[sessions'[d[2]].info].session[d[1]] = d[2],
         CopiesAreOpen', FaultsHaveACause'
  PROVE  WalkInv'
<1>1. /\ DOMAIN _childs = 1 .. Len(_childs) /\ DOMAIN _childs' = 1 .. Len(_childs')
      /\ DOMAIN sessions = 1 .. Len(sessions) /\ DOMAIN sessions' = 1 .. Len(sessions')
      /\ Len(_childs) \in Nat /\ Len(sessions) \in Nat
  BY WalkFacts, LenProperties DEF PointerInv, ListInv, RootTypeOK
<1>2. DOMAIN sessions \subseteq DOMAIN sessions' /\ DOMAIN _childs \subseteq DOMAIN _childs'
  BY <1>1
<1>3. WalkTypeOK'
  <2>1. walk.copy \in [Pointers -> {0, Wild} \cup DOMAIN sessions']
    BY <1>2 DEF WalkInv, WalkTypeOK
  <2>2. walk.child \in 0 .. Len(_childs')
    BY <1>1 DEF WalkInv, WalkTypeOK
  <2>3. before \in 0 .. Len(sessions')
    BY <1>1 DEF WalkInv, WalkTypeOK
  <2>. QED
    BY <2>1, <2>2, <2>3 DEF WalkInv, WalkTypeOK
<1>4. \A c, k : Open(c, k)' \cap 1 .. before \subseteq Open(c, k) \cap 1 .. before
  <2>1. 1 .. before \subseteq DOMAIN sessions
    BY <1>1 DEF WalkInv, WalkTypeOK
  <2>. QED
    BY <2>1 DEF Open
<1>5. NullsHaveACause'
  <2>1. HasCause(walk.child) => HasCause(walk.child)'
    BY <1>4 DEF HasCause
  <2>. QED
    BY <2>1 DEF WalkInv, NullsHaveACause
<1>6. DueIsAhead'
  <2>1. ASSUME NEW d \in due'
        PROVE  d = <<d[1], d[2]>> /\ IsAhead(d[1], d[2])'
    <3>1. d = <<d[1], d[2]>> /\ IsAhead(d[1], d[2]) /\ _childs'[sessions'[d[2]].info].session[d[1]] = d[2]
      BY <2>1 DEF WalkInv, DueIsAhead
    <3>. QED
      BY <1>2, <3>1 DEF IsAhead
  <2>. QED
    BY <2>1 DEF WalkInv, DueIsAhead
<1>. QED
  BY <1>3, <1>5, <1>6 DEF WalkInv

\* The requests up to the insertion of a Child_info.
LEMMA EarlyRequestsKeepWalkInv ==
  ASSUME WalkInv, fault = "none", NEW t \in Threads, Created(t) \/ FindInfo(t) \/ InsertInfo(t),
         PointerInv', SessionsAreFew'
  PROVE  WalkInv'
<1>1. UNCHANGED <<sessions, walk, running, fault, due, closed, before, shared>>
  BY DEF Created, FindInfo, InsertInfo, walkVars, history
<1>2. /\ Len(_childs) \in Nat /\ Len(_childs') \in Nat /\ Len(_childs) <= Len(_childs')
      /\ \A c \in DOMAIN _childs : _childs'[c] = _childs[c]
      /\ \A c \in DOMAIN _childs' \ DOMAIN _childs :
           \E p \in {0, Wild} : \A k \in Pointers : _childs'[c].session[k] = p
  <2>1. CASE Created(t) \/ FindInfo(t)
    <3>1. _childs' = _childs
      BY <2>1 DEF Created, FindInfo
    <3>. QED
      BY <3>1, WalkFacts
  <2>2. CASE InsertInfo(t)
    BY <2>2, InsertEffect DEF WalkInv, PointerInv
  <2>. QED
    BY <2>1, <2>2
<1>3. PointersInPairs'
  <2>1. {"pd", "capability_mapping"} \subseteq Pointers
    BY DEF Pointers, Kinds
  <2>. QED
    BY <1>2, <2>1 DEF WalkInv, PointersInPairs
<1>4. \A d \in due : _childs'[sessions[d[2]].info].session[d[1]] = d[2]
  BY <1>2, WalkFacts DEF WalkInv, DueIsAhead, IsAhead
<1>5. CopiesAreOpen' /\ FaultsHaveACause'
  BY <1>1 DEF WalkInv, CopiesAreOpen, FaultsHaveACause
<1>6. /\ \A o \in DOMAIN sessions :
           /\ sessions'[o].info = sessions[o].info /\ sessions'[o].kind = sessions[o].kind
           /\ sessions'[o].state = "open" => sessions[o].state = "open"
      /\ Len(sessions') \in Nat /\ Len(sessions) <= Len(sessions')
      /\ UNCHANGED <<walk, running, before>> /\ shared \subseteq shared' /\ due' \subseteq due
  BY <1>1, WalkFacts
<1>7. \A d \in due' : _childs'[sessions'[d[2]].info].session[d[1]] = d[2]
  BY <1>1, <1>4
<1>8. Len(_childs') \in Nat /\ Len(_childs) <= Len(_childs')
  BY <1>2
<1>. QED
  BY <1>3, <1>5, <1>6, <1>7, <1>8, RequestsKeepWalkInv

LEMMA ConstructKeepsWalkInv ==
  ASSUME WalkInv, fault = "none", NEW t \in Threads, Construct(t),
         PointerInv', SessionsAreFew'
  PROVE  WalkInv'
<1> DEFINE c == request[t].info
           kind == request[t].kind
           n == Len(sessions) + 1
<1>1. /\ c \in DOMAIN _childs /\ kind \in Kinds
      /\ n \in Nat \ {0}
      /\ DOMAIN sessions = 1 .. n - 1 /\ DOMAIN sessions' = 1 .. n
      /\ \A o \in DOMAIN sessions : sessions'[o] = sessions[o]
      /\ DOMAIN _childs' = DOMAIN _childs
      /\ \A d \in DOMAIN _childs, k \in Pointers :
           _childs'[d].session[k] =
             IF d = c /\ k \in PointersTo(kind) THEN n ELSE _childs[d].session[k]
      /\ shared' = IF Open(c, kind) # {} THEN shared \cup {<<c, kind>>} ELSE shared
  BY ConstructEffect DEF WalkInv, PointerInv
<1>2. /\ due' = due \cap Registered'
      /\ UNCHANGED <<walk, running, fault, closed, before>>
  BY DEF Construct, walkVars
<1>. HIDE DEF c, kind, n
<1>3. PointersInPairs'
  BY <1>1 DEF WalkInv, PointersInPairs, PointersTo, Pointers, Kinds
<1>4. /\ Len(_childs') = Len(_childs) /\ Len(_childs) \in Nat
      /\ Len(sessions') \in Nat /\ Len(sessions) <= Len(sessions')
  <2>1. Len(_childs) \in Nat /\ Len(_childs') \in Nat
        /\ DOMAIN _childs = 1 .. Len(_childs) /\ DOMAIN _childs' = 1 .. Len(_childs')
        /\ Len(sessions) \in Nat /\ Len(sessions') \in Nat
        /\ DOMAIN sessions = 1 .. Len(sessions) /\ DOMAIN sessions' = 1 .. Len(sessions')
    BY WalkFacts, LenProperties DEF PointerInv, ListInv, RootTypeOK
  <2>. QED
    BY <1>1, <2>1 DEF n
<1>5. \A d \in due' : _childs'[sessions'[d[2]].info].session[d[1]] = d[2]
  <2>1. \A d \in due' : d = <<d[1], d[2]>> /\ d \in Registered'
    BY <1>2 DEF WalkInv, DueIsAhead
  <2>. QED
    BY <2>1, RegisteredOnceNext
<1>6. CopiesAreOpen' /\ FaultsHaveACause'
  <2>1. CopiesAreOpen'
    BY <1>1, <1>2 DEF WalkInv, CopiesAreOpen, WalkTypeOK
  <2>. QED
    BY <1>2, <2>1 DEF FaultsHaveACause
<1>7. shared \subseteq shared' /\ due' \subseteq due /\ UNCHANGED <<walk, running, before>>
  BY <1>1, <1>2
<1>8. \A o \in DOMAIN sessions :
        /\ sessions'[o].info = sessions[o].info /\ sessions'[o].kind = sessions[o].kind
        /\ sessions'[o].state = "open" => sessions[o].state = "open"
  BY <1>1
<1>9. Len(_childs') \in Nat /\ Len(_childs) <= Len(_childs')
  BY <1>4
<1>. QED
  BY <1>3, <1>4, <1>5, <1>6, <1>7, <1>8, <1>9, RequestsKeepWalkInv

LEMMA UnregisterKeepsWalkInv ==
  ASSUME WalkInv, fault = "none", NEW t \in Threads, NEW o \in DOMAIN sessions, Unregister(t, o),
         PointerInv', SessionsAreFew'
  PROVE  WalkInv'
<1> DEFINE c == sessions[o].info
           kind == sessions[o].kind
<1>0. ListInv /\ c \in DOMAIN _childs /\ o \in Nat \ {0}
  BY LenProperties DEF WalkInv, PointerInv, References, ListInv, RootTypeOK
<1>1. /\ ListInv'
      /\ kind \in Kinds
      /\ sessions[o].state = "open" /\ sessions[o].by = t
      /\ DOMAIN sessions' = DOMAIN sessions
      /\ \A p \in DOMAIN sessions :
           sessions'[p] = IF p = o THEN [sessions[o] EXCEPT !.state = "closing"] ELSE sessions[p]
      /\ DOMAIN _childs' = DOMAIN _childs
      /\ \A d \in DOMAIN _childs, k \in Pointers :
           _childs'[d].session[k] =
             IF d = c /\ k \in PointersTo(kind) THEN 0 ELSE _childs[d].session[k]
      /\ shared' = shared
      /\ request' = [request EXCEPT ![t] = [Idle EXCEPT !.at = "destroy", !.session = o]]
  BY <1>0, UnregisterEffect
<1>2. /\ due' = due \cap Registered' /\ closed' = (walk.at # "idle")
      /\ UNCHANGED <<walk, running, fault, before>>
  BY DEF Unregister, walkVars
<1>. HIDE DEF c, kind
<1>3. PointersInPairs'
  BY <1>1 DEF WalkInv, PointersInPairs, PointersTo, Pointers, Kinds
<1>4. /\ Len(_childs') = Len(_childs) /\ Len(_childs) \in Nat
      /\ Len(sessions') = Len(sessions) /\ Len(sessions) \in Nat
  BY <1>1, WalkFacts, LenProperties DEF PointerInv, ListInv, RootTypeOK
<1>5. \A p \in DOMAIN sessions :
        /\ sessions'[p].info = sessions[p].info /\ sessions'[p].kind = sessions[p].kind
        /\ sessions'[p].state = "open" => sessions[p].state = "open"
  BY <1>0, <1>1, SessionFields DEF ListInv, Objects
<1>6. \A d \in due' : _childs'[sessions'[d[2]].info].session[d[1]] = d[2]
  <2>1. \A d \in due' : d = <<d[1], d[2]>> /\ d \in Registered'
    BY <1>2 DEF WalkInv, DueIsAhead
  <2>. QED
    BY <2>1, RegisteredOnceNext
<1>7. CopiesAreOpen' /\ FaultsHaveACause'
  BY <1>2 DEF WalkInv, CopiesAreOpen, WalkTypeOK, FaultsHaveACause
<1>8. shared \subseteq shared' /\ due' \subseteq due /\ UNCHANGED <<walk, running, before>>
  BY <1>1, <1>2
<1>9. /\ Len(_childs') \in Nat /\ Len(_childs) <= Len(_childs')
      /\ Len(sessions') \in Nat /\ Len(sessions) <= Len(sessions')
  BY <1>4
<1>. QED
  BY <1>3, <1>5, <1>6, <1>7, <1>8, <1>9, RequestsKeepWalkInv

LEMMA DestroyKeepsWalkInv ==
  ASSUME WalkInv, fault = "none", NEW t \in Threads, Destroy(t),
         PointerInv', SessionsAreFew'
  PROVE  WalkInv'
<1> DEFINE o == request[t].session
<1>0. /\ ListInv /\ o \in DOMAIN sessions /\ sessions[o].state = "closing"
  BY DEF WalkInv, PointerInv, ClosingSession, Destroy
<1>1. /\ DOMAIN sessions' = DOMAIN sessions
      /\ \A p \in DOMAIN sessions :
           sessions'[p] = IF p = o THEN [sessions[o] EXCEPT !.state = "freed"] ELSE sessions[p]
      /\ UNCHANGED <<_childs, shared>>
  BY <1>0, DestroyEffect
<1>2. /\ UNCHANGED <<walk, running, due, closed, before>>
      /\ fault' = IF \E k \in running : walk.copy[k] = o THEN "freed" ELSE fault
  BY DEF Destroy, walkVars, history
<1>. HIDE DEF o
<1>3. PointersInPairs'
  BY <1>1 DEF WalkInv, PointersInPairs
<1>4. Len(sessions') = Len(sessions) /\ Len(sessions) \in Nat /\ Len(_childs) \in Nat
  BY <1>1, WalkFacts, LenProperties DEF PointerInv, ListInv, RootTypeOK
<1>5. \A p \in DOMAIN sessions :
        /\ sessions'[p].info = sessions[p].info /\ sessions'[p].kind = sessions[p].kind
        /\ sessions'[p].state = IF p = o THEN "freed" ELSE sessions[p].state
  BY <1>0, <1>1, SessionFields DEF ListInv, Objects
<1>6. \A d \in due : _childs'[sessions'[d[2]].info].session[d[1]] = d[2]
  BY <1>1, <1>5 DEF WalkInv, DueIsAhead, IsAhead
<1>7. ~ closed => \A k \in Pointers : walk.copy[k] # o
  BY <1>0, WalkFacts DEF WalkInv, CopiesAreOpen
<1>8. CopiesAreOpen'
  BY <1>1, <1>2, <1>5, <1>7 DEF WalkInv, CopiesAreOpen, WalkTypeOK
<1>9. FaultsHaveACause'
  BY <1>2, <1>7 DEF WalkInv, WalkTypeOK, FaultsHaveACause
<1>10. /\ Len(_childs') \in Nat /\ Len(_childs) <= Len(_childs')
       /\ Len(sessions') \in Nat /\ Len(sessions) <= Len(sessions')
  BY <1>1, <1>4
<1>11. \A p \in DOMAIN sessions :
         /\ sessions'[p].info = sessions[p].info /\ sessions'[p].kind = sessions[p].kind
         /\ sessions'[p].state = "open" => sessions[p].state = "open"
  BY <1>5
<1>12. shared \subseteq shared' /\ due' \subseteq due /\ UNCHANGED <<walk, running, before>>
  BY <1>1, <1>2
<1>13. \A d \in due' : _childs'[sessions'[d[2]].info].session[d[1]] = d[2]
  <2>1. \A d \in due : d[2] \in DOMAIN sessions
    BY DEF WalkInv, DueIsAhead, IsAhead
  <2>. QED
    BY <1>1, <1>2, <1>6, <2>1
<1>. QED
  BY <1>3, <1>8, <1>9, <1>10, <1>11, <1>12, <1>13, RequestsKeepWalkInv

-----------------------------------------------------------------------------
(* Together. *)

LEMMA WalkInvInit == ChildInit => WalkInv
<1>. SUFFICES ASSUME ChildInit PROVE WalkInv
  OBVIOUS
<1>1. /\ _childs = <<>> /\ sessions = <<>> /\ request = [t \in Threads |-> Idle]
      /\ walk = Still /\ running = {} /\ due = {} /\ before = 0 /\ fault = "none"
  BY DEF ChildInit, RootInit
<1>2. Len(_childs) = 0 /\ Len(sessions) = 0 /\ DOMAIN _childs = {}
  BY <1>1
<1>3. SessionsAreFew
  <2>1. Opening = {}
    BY <1>1 DEF Opening, Idle
  <2>2. Cardinality(Opening) = 0
    BY <2>1, FS_EmptySet
  <2>. QED
    BY <1>2, <2>2, RootAssumption DEF SessionsAreFew
<1>4. /\ walk.at = "idle" /\ walk.child = 0 /\ walk.copy \in [Pointers -> {0}]
      /\ walk.started = {} /\ walk.joined = {}
  BY <1>1 DEF Still
<1>5. WalkTypeOK
  <2>1. walk.copy \in [Pointers -> {0, Wild} \cup DOMAIN sessions]
    BY <1>4
  <2>. QED
    BY <1>1, <1>2, <1>4, <2>1 DEF WalkTypeOK
<1>6. PointersInPairs /\ CopiesAreOpen /\ NullsHaveACause /\ DueIsAhead /\ FaultsHaveACause
  BY <1>1, <1>2, <1>4
     DEF PointersInPairs, CopiesAreOpen, NullsHaveACause, DueIsAhead, FaultsHaveACause
<1>. QED
  BY <1>3, <1>5, <1>6, PointerInvInit DEF WalkInv

\* A step that none of this sees.
LEMMA ElsewhereKeepsWalkInv ==
  ASSUME WalkInv, PointerInv', UNCHANGED <<_childs, sessions, request, shared>>,
         UNCHANGED <<walk, running, due, closed, before>>,
         fault' \in {fault, "unserved"}
  PROVE  WalkInv'
<1>1. \A c, k : Open(c, k)' = Open(c, k)
  BY DEF Open
<1>2. SessionsAreFew'
  BY DEF WalkInv, SessionsAreFew, Opening
<1>3. WalkTypeOK' /\ PointersInPairs' /\ CopiesAreOpen'
  BY DEF WalkInv, WalkTypeOK, PointersInPairs, CopiesAreOpen
<1>4. NullsHaveACause' /\ FaultsHaveACause'
  BY <1>1 DEF WalkInv, NullsHaveACause, HasCause, FaultsHaveACause
<1>5. DueIsAhead'
  BY DEF WalkInv, DueIsAhead, IsAhead
<1>. QED
  BY <1>2, <1>3, <1>4, <1>5 DEF WalkInv

LEMMA WalkInvStep ==
  ASSUME WalkInv, [ChildNext]_allVars
  PROVE  WalkInv'
<1>0. PointerInv'
  BY PointerInvStep DEF WalkInv
<1>1. CASE UNCHANGED allVars
  <2>1. /\ UNCHANGED <<_childs, sessions, request, shared, fault>>
        /\ UNCHANGED <<walk, running, due, closed, before>>
    BY <1>1 DEF allVars, vars, rootVars, walkVars, history
  <2>. QED
    BY <1>0, <2>1, ElsewhereKeepsWalkInv
<1>2. CASE ChildNext
  <2>0. fault = "none"
    BY <1>2, ChildNextSteps
  <2>1. CASE Init_module
    BY <2>0, <2>1, WalkBegins, LoadKeepsWalkInv, StartKeepsWalkInv, NextChildKeepsWalkInv,
       VisitKeepsWalkInv, WorkerKeepsWalkInv DEF Init_module
  <2>2. CASE Elsewhere
    <3>1. /\ UNCHANGED <<_childs, sessions, request, shared>>
          /\ UNCHANGED <<walk, running, due, closed, before>>
          /\ fault' \in {fault, "unserved"}
      BY <2>2 DEF Elsewhere
    <3>. QED
      BY <1>0, <3>1, ElsewhereKeepsWalkInv
  <2>3. ASSUME NEW t \in Threads, ThreadStep(t)
        PROVE  WalkInv'
    <3>1. SessionsAreFew'
      BY <2>3, SessionsStayFew DEF WalkInv
    <3>2. CASE Created(t) \/ FindInfo(t) \/ InsertInfo(t)
      BY <1>0, <2>0, <3>1, <3>2, EarlyRequestsKeepWalkInv
    <3>3. CASE Construct(t)
      BY <1>0, <2>0, <3>1, <3>3, ConstructKeepsWalkInv
    <3>4. CASE Destroy(t)
      BY <1>0, <2>0, <3>1, <3>4, DestroyKeepsWalkInv
    <3>5. CASE \E o \in DOMAIN sessions : Unregister(t, o)
      BY <1>0, <2>0, <3>1, <3>5, UnregisterKeepsWalkInv
    <3>. QED
      BY <2>3, <3>2, <3>3, <3>4, <3>5 DEF ThreadStep
  <2>. QED
    BY <1>2, <2>1, <2>2, <2>3, ChildNextSteps
<1>. QED
  BY <1>1, <1>2

-----------------------------------------------------------------------------
(* The sum of the values of a function is a fold, and the number of units that *)
(* the values have.                                                            *)

\* The units of the members of S, one by one.
Units(f, S) == UNION {{t} \X (1 .. f[t]) : t \in S}

\* One value is as many units as it says.
LEMMA UnitsOfOne ==
  ASSUME NEW t, NEW n \in Nat
  PROVE  IsFiniteSet({t} \X (1 .. n)) /\ Cardinality({t} \X (1 .. n)) = n
<1> DEFINE A == {t}
           B == 1 .. n
<1>1. IsFiniteSet(A) /\ Cardinality(A) = 1
  BY FS_Singleton
<1>2. IsFiniteSet(B) /\ Cardinality(B) = n
  BY FS_Interval
<1>. HIDE DEF A, B
<1>3. IsFiniteSet(A \X B) /\ Cardinality(A \X B) = Cardinality(A) * Cardinality(B)
  BY <1>1, <1>2, FS_Product
<1>4. Cardinality(A \X B) = n
  BY <1>1, <1>2, <1>3
<1>. QED
  BY <1>3, <1>4 DEF A, B

\* All values together have finitely many.
LEMMA UnitsAreFinite ==
  ASSUME NEW S, IsFiniteSet(S), NEW f, \A t \in S : f[t] \in Nat
  PROVE  IsFiniteSet(Units(f, S)) /\ Cardinality(Units(f, S)) \in Nat
<1> DEFINE g == [t \in S |-> {t} \X (1 .. f[t])]
           T == {{t} \X (1 .. f[t]) : t \in S}
<1>1. g \in Surjection(S, T)
  <2>1. g \in [S -> T]
    OBVIOUS
  <2>2. \A X \in T : \E t \in S : g[t] = X
    OBVIOUS
  <2>. QED
    BY <2>1, <2>2 DEF Surjection
<1>2. ASSUME NEW X \in T PROVE IsFiniteSet(X)
  <2>1. PICK t \in S : X = {t} \X (1 .. f[t])
    OBVIOUS
  <2>2. IsFiniteSet({t} \X (1 .. f[t]))
    BY UnitsOfOne
  <2>. QED
    BY <2>1, <2>2
<1>. HIDE DEF g, T
<1>3. IsFiniteSet(T)
  BY <1>1, FS_Surjection
<1>4. IsFiniteSet(UNION T)
  BY <1>2, <1>3, FS_UNION
<1>. QED
  BY <1>4, FS_CardinalityType DEF Units, T

\* The units of one member come on top of those of the others.
LEMMA UnitsOfOneMore ==
  ASSUME NEW S, IsFiniteSet(S), NEW f, \A t \in S : f[t] \in Nat, NEW t \in S
  PROVE  Cardinality(Units(f, S)) = Cardinality(Units(f, S \ {t})) + f[t]
<1> DEFINE U == Units(f, S \ {t})
           V == {t} \X (1 .. f[t])
<1>1. IsFiniteSet(S \ {t})
  BY FS_RemoveElement
<1>2. IsFiniteSet(U) /\ Cardinality(U) \in Nat
  BY <1>1, UnitsAreFinite
<1>3. IsFiniteSet(V) /\ Cardinality(V) = f[t]
  BY UnitsOfOne
<1>4. Units(f, S) = U \cup V
  BY DEF Units
<1>5. U \cap V = {}
  BY DEF Units
<1>6. Cardinality(U \cap V) = 0
  BY <1>5, FS_EmptySet
<1>. HIDE DEF U, V
<1>7. Cardinality(U \cup V) = Cardinality(U) + Cardinality(V) - Cardinality(U \cap V)
  BY <1>2, <1>3, FS_Union
<1>. QED
  BY <1>2, <1>3, <1>4, <1>6, <1>7 DEF U

\* The recursive function of the fold is the only one that satisfies its equation,
\* and the number of units satisfies it: so that number is what is folded.
LEMMA SumIsUnits ==
  ASSUME NEW f, IsFiniteSet(DOMAIN f), \A t \in DOMAIN f : f[t] \in Nat
  PROVE  SumFunction(f) = Cardinality(Units(f, DOMAIN f))
<1> DEFINE D == DOMAIN f
           one(s) == CHOOSE t \in s : TRUE
           Step(h) == [s \in SUBSET D |-> IF s = {} THEN 0 ELSE f[one(s)] + h[s \ {one(s)}]]
           fold == CHOOSE h : h = Step(h)
           count == [s \in SUBSET D |-> Cardinality(Units(f, s))]
<1>0. \A s \in SUBSET D : IsFiniteSet(s) /\ \A t \in s : f[t] \in Nat
  BY FS_Subset
<1>1. SumFunction(f) = fold[D]
  BY DEF SumFunction, SumFunctionOnSet, FoldFunctionOnSet, MapThenFoldSet
<1>2. \A s : s # {} => one(s) \in s
  OBVIOUS
<1>. HIDE DEF one
<1>3. count = Step(count)
  <2>1. ASSUME NEW s \in SUBSET D
        PROVE  count[s] = IF s = {} THEN 0 ELSE f[one(s)] + count[s \ {one(s)}]
    <3>1. CASE s = {}
      <4>1. Units(f, s) = {}
        BY <3>1 DEF Units
      <4>. QED
        BY <3>1, <4>1, FS_EmptySet
    <3>2. CASE s # {}
      <4> DEFINE t == one(s)
      <4>1. t \in s /\ IsFiniteSet(s) /\ \A u \in s : f[u] \in Nat
        BY <1>0, <1>2, <3>2
      <4>. HIDE DEF t
      <4>2. Cardinality(Units(f, s)) = Cardinality(Units(f, s \ {t})) + f[t]
        BY <4>1, UnitsOfOneMore
      <4>3. Cardinality(Units(f, s \ {t})) \in Nat /\ f[t] \in Nat
        <5>1. IsFiniteSet(s \ {t})
          BY <4>1, FS_RemoveElement
        <5>. QED
          BY <4>1, <5>1, UnitsAreFinite
      <4>4. s \ {t} \in SUBSET D
        OBVIOUS
      <4>. QED
        BY <3>2, <4>2, <4>3, <4>4 DEF t
    <3>. QED
      BY <3>1, <3>2
  <2>. QED
    BY <2>1
<1>4. fold = Step(fold)
  BY <1>3
<1>. HIDE DEF fold
<1>5. \A s \in SUBSET D : fold[s] = count[s]
  <2> DEFINE B == {s \in SUBSET D : fold[s] # count[s]}
             N == {Cardinality(s) : s \in B}
  <2>. SUFFICES ASSUME B # {} PROVE FALSE
    OBVIOUS
  <2>1. N \in SUBSET Nat /\ N # {}
    BY <1>0, FS_CardinalityType
  <2>2. PICK n \in N : \A m \in N : n <= m
    BY <2>1, NatHasLeast
  <2>3. PICK s \in B : Cardinality(s) = n
    BY <2>2
  <2>4. s # {}
    <3>1. {} \in SUBSET D
      OBVIOUS
    <3>2. Step(fold)[{}] = 0 /\ Step(count)[{}] = 0
      BY <3>1
    <3>3. fold[{}] = 0 /\ count[{}] = 0
      BY <1>3, <1>4, <3>2
    <3>. QED
      BY <2>3, <3>3
  <2>5. /\ one(s) \in s
        /\ fold[s] = f[one(s)] + fold[s \ {one(s)}]
        /\ count[s] = f[one(s)] + count[s \ {one(s)}]
    BY <1>2, <1>3, <1>4, <2>3, <2>4
  <2>6. s \ {one(s)} \in B
    BY <2>3, <2>5
  <2>7. Cardinality(s \ {one(s)}) = n - 1 /\ n \in Nat
    BY <1>0, <2>1, <2>2, <2>3, <2>5, FS_RemoveElement
  <2>. QED
    BY <2>2, <2>6, <2>7
<1>. QED
  BY <1>1, <1>5

\* A sum of natural numbers is one, and zero if all of them are.
LEMMA SumIsNat ==
  ASSUME NEW f, IsFiniteSet(DOMAIN f), \A t \in DOMAIN f : f[t] \in Nat
  PROVE  /\ SumFunction(f) \in Nat
         /\ (\A t \in DOMAIN f : f[t] = 0) => SumFunction(f) = 0
<1>1. SumFunction(f) \in Nat
  BY SumIsUnits, UnitsAreFinite
<1>2. ASSUME \A t \in DOMAIN f : f[t] = 0 PROVE SumFunction(f) = 0
  <2>1. Units(f, DOMAIN f) = {}
    BY <1>2 DEF Units
  <2>. QED
    BY <2>1, SumIsUnits, FS_EmptySet
<1>. QED
  BY <1>1, <1>2

\* One member more is its value more.
LEMMA SumOfOneMore ==
  ASSUME NEW f, IsFiniteSet(DOMAIN f), \A u \in DOMAIN f : f[u] \in Nat,
         NEW t \in DOMAIN f, NEW g, DOMAIN g = DOMAIN f \ {t}, \A u \in DOMAIN g : g[u] = f[u]
  PROVE  SumFunction(f) = SumFunction(g) + f[t]
<1>1. IsFiniteSet(DOMAIN g) /\ \A u \in DOMAIN g : g[u] \in Nat
  BY FS_RemoveElement
<1>2. Units(g, DOMAIN g) = Units(f, DOMAIN f \ {t})
  BY DEF Units
<1>3. Cardinality(Units(f, DOMAIN f)) = Cardinality(Units(f, DOMAIN f \ {t})) + f[t]
  BY UnitsOfOneMore
<1>. QED
  BY <1>1, <1>2, <1>3, SumIsUnits

-----------------------------------------------------------------------------
(* The quota of the children.                                              *)

\* Giving a child more is what the sum grows by.
LEMMA TotalGrows ==
  ASSUME NEW amounts, NEW r, NEW t \in Childs, NEW n \in Nat, NEW more,
         \A u \in Childs : amounts[u][r] \in Nat,
         more[t][r] = amounts[t][r] + n, \A u \in Childs \ {t} : more[u][r] = amounts[u][r]
  PROVE  Total(more, r) = Total(amounts, r) + n /\ Total(amounts, r) \in Nat
<1> DEFINE f == [u \in Childs |-> amounts[u][r]]
           g == [u \in Childs |-> more[u][r]]
           h == [u \in Childs \ {t} |-> amounts[u][r]]
<1>1. IsFiniteSet(Childs) /\ IsFiniteSet(Childs \ {t})
  BY FS_RemoveElement, FS_Subset, RootAssumption, ChildAssumption
<1>2. /\ DOMAIN f = Childs /\ \A u \in Childs : f[u] \in Nat
      /\ DOMAIN g = Childs /\ \A u \in Childs : g[u] \in Nat
      /\ DOMAIN h = Childs \ {t} /\ \A u \in DOMAIN h : h[u] = f[u] /\ h[u] = g[u] /\ h[u] \in Nat
      /\ g[t] = f[t] + n
  OBVIOUS
<1>3. Total(amounts, r) = SumFunction(f) /\ Total(more, r) = SumFunction(g)
  BY DEF Total
<1>. HIDE DEF f, g, h
<1>4. SumFunction(f) = SumFunction(h) + f[t]
  BY <1>1, <1>2, SumOfOneMore
<1>5. SumFunction(g) = SumFunction(h) + g[t]
  BY <1>1, <1>2, SumOfOneMore
<1>6. SumFunction(h) \in Nat /\ f[t] \in Nat
  BY <1>1, <1>2, SumIsNat
<1>. QED
  BY <1>2, <1>3, <1>4, <1>5, <1>6

LEMMA NothingGiven ==
  ASSUME NEW amounts, NEW r, \A t \in Childs : amounts[t][r] = 0
  PROVE  Total(amounts, r) = 0
<1> DEFINE f == [u \in Childs |-> amounts[u][r]]
<1>1. IsFiniteSet(Childs)
  BY FS_Subset, RootAssumption, ChildAssumption
<1>2. DOMAIN f = Childs /\ \A u \in Childs : f[u] = 0
  OBVIOUS
<1>3. Total(amounts, r) = SumFunction(f)
  BY DEF Total
<1>. HIDE DEF f
<1>. QED
  BY <1>1, <1>2, <1>3, SumIsNat

Stages == {"none", "config", "init_caps", "init_ram", "open_cpu", "running", "give_ram",
           "give_caps", "failed"}

QuotaTypeOK ==
  /\ stage \in [Childs -> Stages]
  /\ avail \in [Resources -> Nat]
  /\ quota \in [Childs -> [Resources -> Nat]] /\ given \in [Childs -> [Resources -> Nat]]
  /\ asked \in [Childs -> [Resources -> Nat]] /\ promised \in [Childs -> [Resources -> Nat]]

\* A child whose constructor runs was promised nothing; of what it will be told of
\* next, it has what was transferred on the way there.
HalfWayIsGiven ==
  \A t \in Childs :
    /\ stage[t] \in {"none", "config", "init_caps", "init_ram", "open_cpu"} => promised[t] = NoQuota
    /\ stage[t] \in {"init_ram", "open_cpu"} => quota[t]["caps"] <= given[t]["caps"]
    /\ stage[t] = "open_cpu" => quota[t]["ram"] <= given[t]["ram"]
    /\ stage[t] = "give_caps" => promised[t]["ram"] + asked[t]["ram"] <= given[t]["ram"]

QuotaInv == QuotaTypeOK /\ HalfWayIsGiven /\ NotifiedMeansGiven

LEMMA QuotaInvInit == ChildInit => QuotaInv
<1>. SUFFICES ASSUME ChildInit PROVE QuotaInv
  OBVIOUS
<1>1. /\ stage = [t \in Childs |-> "none"] /\ avail = Budget
      /\ quota = [t \in Childs |-> NoQuota] /\ given = [t \in Childs |-> NoQuota]
      /\ asked = [t \in Childs |-> NoQuota] /\ promised = [t \in Childs |-> NoQuota]
  BY DEF ChildInit
<1>2. NoQuota \in [Resources -> Nat] /\ \A r \in Resources : NoQuota[r] = 0
  BY DEF NoQuota
<1>3. QuotaTypeOK /\ HalfWayIsGiven
  BY <1>1, <1>2, ChildAssumption DEF QuotaTypeOK, HalfWayIsGiven, Stages
<1>4. \A r \in Resources : Total(given, r) = 0
  BY <1>1, <1>2, NothingGiven
<1>5. NotifiedMeansGiven
  BY <1>1, <1>2, <1>4, ChildAssumption DEF NotifiedMeansGiven
<1>. QED
  BY <1>3, <1>5 DEF QuotaInv

\* A transfer that succeeds and one that fails.
LEMMA TransferEffect ==
  ASSUME QuotaInv, NEW t \in Childs, NEW r \in Resources, NEW n \in Nat, NEW next \in Stages \ {"failed"},
         transfer_quota(t, r, n, next)
  PROVE  /\ avail' \in [Resources -> Nat] /\ given' \in [Childs -> [Resources -> Nat]]
         /\ stage' \in [Childs -> Stages] /\ stage'[t] \in {next, "failed"}
         /\ \A u \in Childs \ {t} : stage'[u] = stage[u] /\ given'[u] = given[u]
         /\ \A q \in Resources : given'[t][q] = IF q = r /\ stage'[t] = next
                                               THEN given[t][q] + n ELSE given[t][q]
         /\ \A q \in Resources : avail'[q] + Total(given', q) = Budget[q]
<1>0. /\ QuotaTypeOK /\ \A q \in Resources : avail[q] + Total(given, q) = Budget[q]
      /\ \A q \in Resources : Budget[q] \in Nat
  BY ChildAssumption DEF QuotaInv, NotifiedMeansGiven
<1>1. CASE /\ avail[r] >= n
           /\ avail' = [avail EXCEPT ![r] = @ - n]
           /\ given' = [given EXCEPT ![t][r] = @ + n]
           /\ Goto(t, next)
  <2>1. /\ avail' \in [Resources -> Nat] /\ given' \in [Childs -> [Resources -> Nat]]
        /\ stage' \in [Childs -> Stages] /\ stage'[t] = next
    BY <1>0, <1>1 DEF QuotaTypeOK, Goto
  <2>2. \A u \in Childs \ {t} : stage'[u] = stage[u] /\ given'[u] = given[u]
    BY <1>0, <1>1 DEF QuotaTypeOK, Goto
  <2>3. \A q \in Resources : given'[t][q] = IF q = r THEN given[t][q] + n ELSE given[t][q]
    BY <1>0, <1>1 DEF QuotaTypeOK
  <2>4. avail'[r] = avail[r] - n /\ \A q \in Resources \ {r} : avail'[q] = avail[q]
    BY <1>0, <1>1 DEF QuotaTypeOK
  <2>5. ASSUME NEW q \in Resources
        PROVE  avail'[q] + Total(given', q) = Budget[q]
    <3>1. \A u \in Childs : given[u][q] \in Nat
      BY <1>0 DEF QuotaTypeOK
    <3>2. \A u \in Childs \ {t} : given'[u][q] = given[u][q]
      BY <2>2
    <3> DEFINE m == IF q = r THEN n ELSE 0
    <3>3. m \in Nat /\ given'[t][q] = given[t][q] + m
      BY <1>0, <2>3 DEF QuotaTypeOK
    <3>4. avail'[q] = avail[q] - m /\ avail[q] \in Nat
      BY <1>0, <2>4 DEF QuotaTypeOK
    <3>. HIDE DEF m
    <3>5. Total(given', q) = Total(given, q) + m /\ Total(given, q) \in Nat
      BY <3>1, <3>2, <3>3, TotalGrows
    <3>. QED
      BY <1>0, <3>3, <3>4, <3>5
  <2>. QED
    BY <2>1, <2>2, <2>3, <2>5
<1>2. CASE /\ avail[r] < n
           /\ Goto(t, "failed")
           /\ UNCHANGED <<avail, given>>
  BY <1>0, <1>2 DEF QuotaTypeOK, Goto, Stages
<1>. QED
  BY <1>1, <1>2 DEF transfer_quota

\* The steps that move no quota.
LEMMA QuotaInvKept ==
  ASSUME QuotaInv, QuotaTypeOK', HalfWayIsGiven', UNCHANGED <<avail, given>>,
         \A t \in Childs, r \in Resources : promised'[t][r] <= given[t][r]
  PROVE  QuotaInv'
<1>1. NotifiedMeansGiven'
  BY DEF QuotaInv, NotifiedMeansGiven
<1>. QED
  BY <1>1 DEF QuotaInv

LEMMA QuotaInvStep ==
  ASSUME QuotaInv, [ChildNext]_allVars
  PROVE  QuotaInv'
<1>0. QuotaTypeOK /\ HalfWayIsGiven /\ \A t \in Childs, r \in Resources : promised[t][r] <= given[t][r]
  BY DEF QuotaInv, NotifiedMeansGiven
<1>1. CASE UNCHANGED childVars
  <2>1. QuotaTypeOK' /\ HalfWayIsGiven'
    BY <1>0, <1>1 DEF QuotaTypeOK, HalfWayIsGiven, childVars
  <2>. QED
    BY <1>0, <1>1, <2>1, QuotaInvKept DEF childVars
<1>2. ASSUME NEW t \in Childs, create_pd_session(t)
      PROVE  QuotaInv'
  <2>1. /\ UNCHANGED <<avail, quota, given, asked, promised>>
        /\ stage[t] = "none" /\ stage' = [stage EXCEPT ![t] = "config"]
    BY <1>2 DEF create_pd_session, Goto
  <2>2. QuotaTypeOK' /\ HalfWayIsGiven'
    BY <1>0, <2>1 DEF QuotaTypeOK, HalfWayIsGiven, Stages
  <2>. QED
    BY <1>0, <2>1, <2>2, QuotaInvKept
<1>3. ASSUME NEW t \in Childs, read_quotas(t)
      PROVE  QuotaInv'
  <2>1. stage[t] = "config" /\ UNCHANGED <<avail, given, asked, promised>>
    BY <1>3 DEF read_quotas, At
  <2>2. /\ quota' \in [Childs -> [Resources -> Nat]]
        /\ stage' \in [Childs -> Stages] /\ stage'[t] \in {"init_caps", "failed"}
        /\ \A u \in Childs \ {t} : stage'[u] = stage[u] /\ quota'[u] = quota[u]
    <3>1. CASE Config[t].found /\ Config[t].caps # Absent
      <4> DEFINE q == [ram |-> IF Config[t].quota = Absent THEN 0 ELSE Config[t].quota,
                       caps |-> Config[t].caps]
      <4>1. q \in [Resources -> Nat]
        <5>1. Config[t].caps \in Nat /\ (Config[t].quota # Absent => Config[t].quota \in Nat)
          BY <3>1, ChildAssumption
        <5>. QED
          BY <5>1 DEF Resources
      <4>2. quota' = [quota EXCEPT ![t] = q] /\ stage' = [stage EXCEPT ![t] = "init_caps"]
        BY <1>3, <3>1 DEF read_quotas, Goto
      <4>. HIDE DEF q
      <4>. QED
        BY <1>0, <4>1, <4>2 DEF QuotaTypeOK, Stages
    <3>2. CASE ~ (Config[t].found /\ Config[t].caps # Absent)
      BY <1>0, <1>3, <3>2 DEF read_quotas, Goto, QuotaTypeOK, Stages
    <3>. QED
      BY <3>1, <3>2
  <2>3. QuotaTypeOK' /\ HalfWayIsGiven'
    BY <1>0, <2>1, <2>2 DEF QuotaTypeOK, HalfWayIsGiven
  <2>. QED
    BY <1>0, <2>1, <2>3, QuotaInvKept
<1>4. ASSUME NEW t \in Childs, init_pd(t)
      PROVE  QuotaInv'
  <2>1. PICK r \in Resources, next \in {"init_ram", "open_cpu"} :
          /\ transfer_quota(t, r, quota[t][r], next)
          /\ \/ r = "caps" /\ next = "init_ram" /\ stage[t] = "init_caps"
             \/ r = "ram" /\ next = "open_cpu" /\ stage[t] = "init_ram"
          /\ UNCHANGED <<quota, asked, promised>>
    BY <1>4 DEF init_pd, At, Resources
  <2>2. quota[t][r] \in Nat /\ next \in Stages \ {"failed"}
    BY <1>0, <2>1 DEF QuotaTypeOK, Stages
  <2>3. /\ avail' \in [Resources -> Nat] /\ given' \in [Childs -> [Resources -> Nat]]
        /\ stage' \in [Childs -> Stages] /\ stage'[t] \in {next, "failed"}
        /\ \A u \in Childs \ {t} : stage'[u] = stage[u] /\ given'[u] = given[u]
        /\ \A q \in Resources : given'[t][q] = IF q = r /\ stage'[t] = next
                                              THEN given[t][q] + quota[t][r] ELSE given[t][q]
        /\ \A q \in Resources : avail'[q] + Total(given', q) = Budget[q]
    BY <2>1, <2>2, TransferEffect
  <2>4. \A u \in Childs, q \in Resources : given[u][q] <= given'[u][q] /\ given[u][q] \in Nat
                                          /\ promised[u][q] \in Nat /\ quota[u][q] \in Nat
    <3>1. \A u \in Childs, q \in Resources :
            given[u][q] \in Nat /\ promised[u][q] \in Nat /\ quota[u][q] \in Nat
      BY <1>0 DEF QuotaTypeOK
    <3>2. ASSUME NEW q \in Resources PROVE given[t][q] <= given'[t][q]
      BY <2>2, <2>3, <3>1
    <3>3. ASSUME NEW u \in Childs \ {t}, NEW q \in Resources PROVE given[u][q] <= given'[u][q]
      BY <2>3, <3>1
    <3>. QED
      BY <3>1, <3>2, <3>3
  <2>5. QuotaTypeOK'
    BY <1>0, <2>1, <2>3 DEF QuotaTypeOK
  <2>6. HalfWayIsGiven'
    <3>1. ASSUME NEW u \in Childs \ {t}
          PROVE  /\ stage'[u] = stage[u] /\ given'[u] = given[u]
                 /\ quota'[u] = quota[u] /\ asked'[u] = asked[u] /\ promised'[u] = promised[u]
      BY <2>1, <2>3
    <3>2. /\ promised'[t] = NoQuota /\ quota'[t] = quota[t]
          /\ stage'[t] \in {"init_ram", "open_cpu"} => quota[t]["caps"] <= given'[t]["caps"]
          /\ stage'[t] = "open_cpu" => quota[t]["ram"] <= given'[t]["ram"]
      BY <1>0, <2>1, <2>2, <2>3, <2>4 DEF HalfWayIsGiven, Resources
    <3>. QED
      BY <1>0, <2>1, <2>3, <3>1, <3>2 DEF HalfWayIsGiven
  <2>7. NotifiedMeansGiven'
    <3>1. \A u \in Childs, q \in Resources : promised'[u][q] <= given'[u][q]
      BY <1>0, <2>1, <2>3, <2>4
    <3>. QED
      BY <2>3, <3>1 DEF NotifiedMeansGiven
  <2>. QED
    BY <2>5, <2>6, <2>7 DEF QuotaInv
<1>5. ASSUME NEW t \in Childs, open_cpu(t)
      PROVE  QuotaInv'
  <2>1. /\ stage[t] = "open_cpu" /\ stage' = [stage EXCEPT ![t] = "running"]
        /\ promised' = [promised EXCEPT ![t] = quota[t]]
        /\ UNCHANGED <<avail, quota, given, asked>>
    BY <1>5 DEF open_cpu, At, Goto
  <2>2. QuotaTypeOK' /\ HalfWayIsGiven'
    BY <1>0, <2>1 DEF QuotaTypeOK, HalfWayIsGiven, Stages
  <2>3. \A u \in Childs, q \in Resources : promised'[u][q] <= given[u][q]
    BY <1>0, <2>1 DEF QuotaTypeOK, HalfWayIsGiven, Resources
  <2>. QED
    BY <2>1, <2>2, <2>3, QuotaInvKept
<1>6. ASSUME NEW t \in Childs, NEW args \in Requests, resource_request(t, args)
      PROVE  QuotaInv'
  <2>1. /\ stage[t] = "running" /\ stage' = [stage EXCEPT ![t] = "give_ram"]
        /\ asked' = [asked EXCEPT ![t] = args] /\ args \in [Resources -> Nat]
        /\ UNCHANGED <<avail, quota, given, promised>>
    BY <1>6, ChildAssumption DEF resource_request, At, Goto
  <2>2. QuotaTypeOK' /\ HalfWayIsGiven'
    BY <1>0, <2>1 DEF QuotaTypeOK, HalfWayIsGiven, Stages
  <2>. QED
    BY <1>0, <2>1, <2>2, QuotaInvKept
<1>7. ASSUME NEW t \in Childs, give_resources(t)
      PROVE  QuotaInv'
  <2>0. \A u \in Childs : quota[u] \in [Resources -> Nat] /\ given[u] \in [Resources -> Nat]
                          /\ asked[u] \in [Resources -> Nat] /\ promised[u] \in [Resources -> Nat]
    BY <1>0 DEF QuotaTypeOK
  <2>1. CASE At(t, "give_ram")
    <3>1. /\ stage[t] = "give_ram" /\ transfer_quota(t, "ram", asked[t]["ram"], "give_caps")
          /\ UNCHANGED <<quota, asked, promised>>
      BY <1>7, <2>1 DEF give_resources, At
    <3>2. asked[t]["ram"] \in Nat /\ "give_caps" \in Stages \ {"failed"} /\ "ram" \in Resources
      BY <2>0 DEF Stages, Resources
    <3>3. /\ avail' \in [Resources -> Nat] /\ given' \in [Childs -> [Resources -> Nat]]
          /\ stage' \in [Childs -> Stages] /\ stage'[t] \in {"give_caps", "failed"}
          /\ \A u \in Childs \ {t} : stage'[u] = stage[u] /\ given'[u] = given[u]
          /\ \A q \in Resources : given'[t][q] = IF q = "ram" /\ stage'[t] = "give_caps"
                                                THEN given[t][q] + asked[t]["ram"] ELSE given[t][q]
          /\ \A q \in Resources : avail'[q] + Total(given', q) = Budget[q]
      BY <3>1, <3>2, TransferEffect
    <3>4. QuotaTypeOK'
      BY <1>0, <3>1, <3>3 DEF QuotaTypeOK
    <3>5. HalfWayIsGiven'
      <4>1. stage'[t] = "give_caps" => promised[t]["ram"] + asked[t]["ram"] <= given'[t]["ram"]
        BY <1>0, <2>0, <3>2, <3>3
      <4>. QED
        BY <1>0, <3>1, <3>3, <4>1 DEF HalfWayIsGiven
    <3>6. \A u \in Childs, q \in Resources : promised'[u][q] <= given'[u][q]
      BY <1>0, <2>0, <3>1, <3>2, <3>3
    <3>. QED
      BY <3>3, <3>4, <3>5, <3>6 DEF QuotaInv, NotifiedMeansGiven
  <2>2. CASE At(t, "give_caps")
    <3>1. /\ stage[t] = "give_caps" /\ transfer_quota(t, "caps", asked[t]["caps"], "running")
          /\ promised' = IF stage'[t] = "running"
                         THEN [promised EXCEPT ![t] = Plus(@, asked[t])] ELSE promised
          /\ asked' = [asked EXCEPT ![t] = NoQuota] /\ UNCHANGED quota
      BY <1>7, <2>2 DEF give_resources, At
    <3>2. asked[t]["caps"] \in Nat /\ "running" \in Stages \ {"failed"} /\ "caps" \in Resources
      BY <2>0 DEF Stages, Resources
    <3>3. /\ avail' \in [Resources -> Nat] /\ given' \in [Childs -> [Resources -> Nat]]
          /\ stage' \in [Childs -> Stages] /\ stage'[t] \in {"running", "failed"}
          /\ \A u \in Childs \ {t} : stage'[u] = stage[u] /\ given'[u] = given[u]
          /\ \A q \in Resources : given'[t][q] = IF q = "caps" /\ stage'[t] = "running"
                                                THEN given[t][q] + asked[t]["caps"] ELSE given[t][q]
          /\ \A q \in Resources : avail'[q] + Total(given', q) = Budget[q]
      BY <3>1, <3>2, TransferEffect
    <3>4. /\ promised' \in [Childs -> [Resources -> Nat]]
          /\ \A u \in Childs \ {t} : promised'[u] = promised[u]
          /\ \A q \in Resources : promised'[t][q] = IF stage'[t] = "running"
                                                   THEN promised[t][q] + asked[t][q] ELSE promised[t][q]
      <4> DEFINE p == Plus(promised[t], asked[t])
      <4>1. p \in [Resources -> Nat] /\ \A q \in Resources : p[q] = promised[t][q] + asked[t][q]
        BY <2>0 DEF Plus
      <4>2. promised' = IF stage'[t] = "running" THEN [promised EXCEPT ![t] = p] ELSE promised
        BY <3>1
      <4>. HIDE DEF p
      <4>. QED
        BY <1>0, <4>1, <4>2 DEF QuotaTypeOK
    <3>5. QuotaTypeOK' /\ HalfWayIsGiven'
      <4>1. NoQuota \in [Resources -> Nat]
        BY DEF NoQuota
      <4>2. QuotaTypeOK'
        BY <1>0, <3>1, <3>3, <3>4, <4>1 DEF QuotaTypeOK
      <4>3. \A u \in Childs \ {t} : asked'[u] = asked[u]
        BY <1>0, <3>1 DEF QuotaTypeOK
      <4>. QED
        BY <1>0, <3>1, <3>3, <3>4, <4>2, <4>3 DEF HalfWayIsGiven
    <3>6. \A u \in Childs, q \in Resources : promised'[u][q] <= given'[u][q]
      <4>1. promised[t]["ram"] + asked[t]["ram"] <= given[t]["ram"]
        BY <1>0, <3>1 DEF HalfWayIsGiven
      <4>. QED
        BY <1>0, <2>0, <3>2, <3>3, <3>4, <4>1 DEF Resources
    <3>. QED
      BY <3>3, <3>5, <3>6 DEF QuotaInv, NotifiedMeansGiven
  <2>. QED
    BY <1>7, <2>1, <2>2 DEF give_resources
<1>. QED
  <2>1. ASSUME NEW t \in Childs, ChildStep(t)
        PROVE  QuotaInv'
    BY <1>1, <1>2, <1>3, <1>4, <1>5, <1>6, <1>7, <2>1 DEF ChildStep, request_session, close_session
  <2>. QED
    BY <1>1, <2>1 DEF ChildNext, AnnouncedRoot, allVars

-----------------------------------------------------------------------------
(* Inserting the elements of a sequence at the head of a list, one by one.     *)

LEMMA MaxOfPlaces ==
  ASSUME NEW k \in Nat, NEW T \in SUBSET (1 .. k)
  PROVE  /\ T # {} => Max(T) \in T /\ \A x \in T : x <= Max(T)
         /\ k \in T => Max(T) = k
<1>1. ASSUME T # {} PROVE Max(T) \in T /\ \A x \in T : x <= Max(T)
  <2>1. Max(T) \in T
    BY <1>1, MaxIsElement
  <2> DEFINE N == {k - i : i \in T}
  <2>2. N \in SUBSET Nat /\ N # {}
    <3>1. N \in SUBSET Nat
      OBVIOUS
    <3>2. N # {}
      BY <1>1
    <3>. QED
      BY <3>1, <3>2
  <2>3. PICK n \in N : \A m \in N : n <= m
    <3>. HIDE DEF N
    <3>. QED
      BY <2>2, NatHasLeast
  <2>4. PICK i \in T : n = k - i
    BY <2>3
  <2>5. \A j \in T : k - i <= k - j
    BY <2>3, <2>4
  <2>6. \E x \in T : \A y \in T : x >= y
    BY <2>4, <2>5
  <2>7. \A y \in T : Max(T) >= y
    BY <2>6 DEF Max
  <2>. QED
    BY <2>1, <2>7
<1>2. ASSUME k \in T PROVE Max(T) = k
  <2>1. Max(T) \in T /\ k <= Max(T)
    BY <1>1, <1>2
  <2>2. Max(T) \in 1 .. k
    BY <2>1
  <2>. QED
    BY <2>1, <2>2
<1>. QED
  BY <1>1, <1>2

\* Inserting the elements of s at the places of T, the last one at the end.
InsertedAt(s, list, n, h) ==
  [T \in SUBSET (1 .. n) |-> IF T = {} THEN list ELSE <<s[Max(T)]>> \o h[T \ {Max(T)}]]

\* A function that does so for all sets of places exists.
LEMMA InsertionExists ==
  ASSUME NEW s, NEW list, NEW n \in Nat
  PROVE  \E h : h = InsertedAt(s, list, n, h)
<1> DEFINE Step(h, k) == InsertedAt(s, list, k, h)
           Bad == {k \in 0 .. n : ~ \E h : h = Step(h, k)}
<1>. SUFFICES ASSUME Bad # {} PROVE FALSE
  <2>1. ASSUME Bad = {} PROVE \E h : h = Step(h, n)
    <3>1. n \in 0 .. n
      OBVIOUS
    <3>2. n \notin Bad
      <4>. HIDE DEF Bad
      <4>. QED
        BY <2>1
    <3>. QED
      BY <3>1, <3>2
  <2>. QED
    BY <2>1
<1>1. Bad \in SUBSET Nat
  OBVIOUS
<1>2. PICK k \in Bad : \A m \in Bad : k <= m
  <2>. HIDE DEF Bad
  <2>. QED
    BY <1>1, NatHasLeast
<1>3. k # 0
  <2> DEFINE h == [T \in SUBSET (1 .. 0) |-> list]
  <2>1. ASSUME NEW T \in SUBSET (1 .. 0) PROVE T = {}
    OBVIOUS
  <2>2. h = Step(h, 0)
    BY <2>1 DEF InsertedAt
  <2>. QED
    BY <2>2
<1>4. k \in Nat /\ k - 1 \in 0 .. n /\ k - 1 \notin Bad
  <2>1. k \in 0 .. n
    BY <1>2
  <2>2. k \in Nat /\ k - 1 \in 0 .. n
    BY <1>3, <2>1
  <2>3. k - 1 \notin Bad
    <3>. HIDE DEF Bad
    <3>. QED
      BY <1>2, <2>2
  <2>. QED
    BY <2>2, <2>3
<1>5. PICK h : h = Step(h, k - 1)
  BY <1>4
<1> DEFINE g == [T \in SUBSET (1 .. k) |-> IF k \in T THEN <<s[k]>> \o h[T \ {k}] ELSE h[T]]
<1>6. ASSUME NEW T \in SUBSET (1 .. k)
      PROVE  g[T] = IF T = {} THEN list ELSE <<s[Max(T)]>> \o g[T \ {Max(T)}]
  <2>1. CASE k \in T
    <3>1. Max(T) = k
      BY <1>4, <2>1, MaxOfPlaces
    <3>2. T \ {k} \in SUBSET (1 .. k) /\ k \notin T \ {k}
      OBVIOUS
    <3>3. g[T \ {k}] = h[T \ {k}]
      BY <3>2
    <3>. QED
      BY <2>1, <3>1, <3>3
  <2>2. CASE k \notin T
    <3>1. T \in SUBSET (1 .. k - 1)
      BY <1>4, <2>2
    <3>2. g[T] = h[T]
      BY <2>2
    <3>3. h[T] = IF T = {} THEN list ELSE <<s[Max(T)]>> \o h[T \ {Max(T)}]
      BY <1>5, <3>1 DEF InsertedAt
    <3>4. T \ {Max(T)} \in SUBSET (1 .. k) /\ k \notin T \ {Max(T)}
      BY <2>2
    <3>5. g[T \ {Max(T)}] = h[T \ {Max(T)}]
      BY <3>4
    <3>. QED
      BY <3>2, <3>3, <3>5
  <2>. QED
    BY <2>1, <2>2
<1>7. g = Step(g, k)
  <2>. HIDE DEF g
  <2>1. g = [T \in SUBSET (1 .. k) |-> g[T]]
    BY DEF g
  <2>. QED
    BY <1>6, <2>1 DEF InsertedAt
<1>. QED
  BY <1>2, <1>7

\* The list that results: the elements in reverse, then what was in it before.
LEMMA InsertedIs ==
  ASSUME NEW S, NEW s \in Seq(S), NEW list \in Seq(S)
  PROVE  /\ Inserted(s, list) \in Seq(S)
         /\ Len(Inserted(s, list)) = Len(s) + Len(list)
         /\ \A i \in 1 .. Len(s) : Inserted(s, list)[i] = s[Len(s) + 1 - i]
         /\ \A i \in 1 .. Len(list) : Inserted(s, list)[Len(s) + i] = list[i]
<1> DEFINE D == DOMAIN s
           fold == CHOOSE h : h = [T \in SUBSET D |->
                                     IF T = {} THEN list ELSE <<s[Max(T)]>> \o h[T \ {Max(T)}]]
<1>1. Len(s) \in Nat /\ D = 1 .. Len(s) /\ Len(list) \in Nat
  BY LenProperties
<1>2. Inserted(s, list) = fold[D]
  BY DEF Inserted, FoldLeft, MapThenFoldSet
<1>3. fold = [T \in SUBSET D |-> IF T = {} THEN list ELSE <<s[Max(T)]>> \o fold[T \ {Max(T)}]]
  <2>1. \E h : h = [T \in SUBSET D |-> IF T = {} THEN list ELSE <<s[Max(T)]>> \o h[T \ {Max(T)}]]
    <3>1. \E h : h = InsertedAt(s, list, Len(s), h)
      BY <1>1, InsertionExists
    <3>. QED
      BY <1>1, <3>1 DEF InsertedAt
  <2>. QED
    BY <2>1
<1>. HIDE DEF fold
<1>4. ASSUME NEW k \in 0 .. Len(s)
      PROVE  fold[1 .. k] = IF k = 0 THEN list ELSE <<s[k]>> \o fold[1 .. k - 1]
  <2>1. 1 .. k \in SUBSET D
    BY <1>1
  <2>2. CASE k = 0
    <3>1. 1 .. k = {}
      BY <2>2
    <3>. QED
      BY <1>3, <2>1, <2>2, <3>1
  <2>3. CASE k # 0
    <3>1. k \in 1 .. k /\ (1 .. k) \ {k} = 1 .. k - 1 /\ k \in Nat
      BY <1>1, <2>3
    <3>2. Max(1 .. k) = k
      BY <3>1, MaxOfPlaces
    <3>3. 1 .. k # {}
      BY <3>1
    <3>. QED
      BY <1>3, <2>1, <2>3, <3>1, <3>2, <3>3
  <2>. QED
    BY <2>2, <2>3
<1>. HIDE DEF D
<1> DEFINE UpTo(k) ==
      /\ fold[1 .. k] \in Seq(S)
      /\ Len(fold[1 .. k]) = k + Len(list)
      /\ \A i \in 1 .. k : fold[1 .. k][i] = s[k + 1 - i]
      /\ \A i \in 1 .. Len(list) : fold[1 .. k][k + i] = list[i]
<1>5. UpTo(0)
  <2>1. fold[1 .. 0] = list
    <3>1. 0 \in 0 .. Len(s)
      BY <1>1
    <3>. QED
      BY <1>4, <3>1
  <2>. QED
    BY <1>1, <2>1
<1>6. ASSUME NEW k \in 1 .. Len(s), UpTo(k - 1) PROVE UpTo(k)
  <2> DEFINE t == fold[1 .. k - 1]
  <2>1. fold[1 .. k] = <<s[k]>> \o t
    <3>1. k \in 0 .. Len(s) /\ k # 0
      BY <1>1
    <3>. QED
      BY <1>4, <3>1
  <2>2. t \in Seq(S) /\ Len(t) = k - 1 + Len(list) /\ k \in Nat /\ k - 1 \in Nat
    BY <1>1, <1>6
  <2>3. <<s[k]>> \in Seq(S) /\ Len(<<s[k]>>) = 1 /\ <<s[k]>>[1] = s[k]
    <3>1. s[k] \in S
      BY <1>1, ElementOfSeq
    <3>. QED
      BY <3>1
  <2>. HIDE DEF t
  <2>4. /\ <<s[k]>> \o t \in Seq(S)
        /\ Len(<<s[k]>> \o t) = k + Len(list)
        /\ (<<s[k]>> \o t)[1] = s[k]
        /\ \A j \in 1 .. k - 1 + Len(list) : (<<s[k]>> \o t)[j + 1] = t[j]
    BY <1>1, <2>2, <2>3
  <2>5. ASSUME NEW i \in 1 .. k PROVE (<<s[k]>> \o t)[i] = s[k + 1 - i]
    <3>1. CASE i = 1
      BY <2>2, <2>4, <3>1
    <3>2. CASE i # 1
      <4>1. i - 1 \in 1 .. k - 1 /\ i - 1 \in 1 .. k - 1 + Len(list) /\ i - 1 + 1 = i
        BY <1>1, <2>2, <3>2
      <4>2. t[i - 1] = s[k - 1 + 1 - (i - 1)]
        BY <1>6, <4>1 DEF t
      <4>3. k - 1 + 1 - (i - 1) = k + 1 - i
        BY <2>2
      <4>. QED
        BY <2>4, <4>1, <4>2, <4>3
    <3>. QED
      BY <3>1, <3>2
  <2>6. ASSUME NEW i \in 1 .. Len(list) PROVE (<<s[k]>> \o t)[k + i] = list[i]
    <3>1. k - 1 + i \in 1 .. k - 1 + Len(list) /\ k - 1 + i + 1 = k + i
      BY <1>1, <2>2
    <3>2. t[k - 1 + i] = list[i]
      BY <1>6 DEF t
    <3>. QED
      BY <2>4, <3>1, <3>2
  <2>. QED
    BY <2>1, <2>4, <2>5, <2>6
<1>7. \A k \in 0 .. Len(s) : UpTo(k)
  <2>. HIDE DEF UpTo
  <2> DEFINE Bad == {k \in 0 .. Len(s) : ~ UpTo(k)}
  <2>. SUFFICES ASSUME Bad # {} PROVE FALSE
    OBVIOUS
  <2>1. Bad \in SUBSET Nat
    OBVIOUS
  <2>2. PICK k \in Bad : \A m \in Bad : k <= m
    <3>. HIDE DEF Bad
    <3>. QED
      BY <2>1, NatHasLeast
  <2>3. k \in 1 .. Len(s) /\ k - 1 \in 0 .. Len(s)
    BY <1>1, <1>5, <2>2
  <2>4. UpTo(k - 1)
    BY <2>2, <2>3
  <2>. QED
    BY <1>6, <2>2, <2>3, <2>4
<1>8. UpTo(Len(s))
  <2>. HIDE DEF UpTo
  <2>. QED
    BY <1>1, <1>7
<1>9. Inserted(s, list) = fold[1 .. Len(s)]
  BY <1>1, <1>2
<1>. QED
  BY <1>8, <1>9

\* Its first elements are those of the sequence, in reverse.
LEMMA InsertedInReverse ==
  ASSUME NEW S, NEW s \in Seq(S), NEW list \in Seq(S)
  PROVE  \A i \in 1 .. Len(s) : Inserted(s, list)[i] = s[Len(s) + 1 - i]
  BY InsertedIs

-----------------------------------------------------------------------------
(* Sizes and offsets.                                                          *)

\* Whole pages.
Paged(n) == \E q \in Nat : n = q * PageSize

\* Whole pages leave no rest.
LEMMA PagedIsMultiple ==
  ASSUME NEW n, Paged(n)
  PROVE  n \in Nat /\ n % PageSize = 0
<1>1. PageSize \in Nat \ {0}
  BY SerializerAssumption
<1>2. PICK q \in Nat : n = q * PageSize
  BY DEF Paged
<1>. QED
  BY <1>1, <1>2

\* Whole pages add up to whole pages.
LEMMA PagedSum ==
  ASSUME NEW m, NEW n, Paged(m), Paged(n)
  PROVE  Paged(m + n)
<1>1. PageSize \in Nat
  BY SerializerAssumption
<1>2. PICK p \in Nat : m = p * PageSize
  BY DEF Paged
<1>3. PICK q \in Nat : n = q * PageSize
  BY DEF Paged
<1>4. p + q \in Nat /\ m + n = (p + q) * PageSize
  BY <1>1, <1>2, <1>3
<1>. QED
  BY <1>4 DEF Paged

\* A size that was rounded up is enough, and whole pages.
LEMMA PagesAreEnough ==
  ASSUME NEW n \in Nat \ {0}
  PROVE  /\ Paged(page_aligned_size(n))
         /\ page_aligned_size(n) \in Nat \ {0} /\ n <= page_aligned_size(n)
<1> DEFINE q == n \div PageSize
           whole == q * PageSize
<1>1. PageSize \in Nat \ {0}
  BY SerializerAssumption
<1>2. q \in Nat /\ whole \in Nat /\ whole <= n /\ n < whole + PageSize
  BY <1>1
<1>. HIDE DEF q
<1>3. page_aligned_size(n) = whole + (IF n - whole # 0 THEN PageSize ELSE 0)
  BY DEF page_aligned_size, q
<1>4. CASE n - whole = 0
  <2>1. page_aligned_size(n) = q * PageSize /\ page_aligned_size(n) = n
    BY <1>2, <1>3, <1>4
  <2>. QED
    BY <1>2, <2>1 DEF Paged
<1>5. CASE n - whole # 0
  <2>1. page_aligned_size(n) = (q + 1) * PageSize /\ page_aligned_size(n) = whole + PageSize
    BY <1>1, <1>2, <1>3, <1>5
  <2>2. q + 1 \in Nat
    BY <1>2
  <2>3. Paged(page_aligned_size(n))
    BY <2>1, <2>2 DEF Paged
  <2>4. page_aligned_size(n) \in Nat \ {0} /\ n <= page_aligned_size(n)
    <3>. HIDE DEF whole
    <3>. QED
      BY <1>1, <1>2, <2>1
  <2>. QED
    BY <2>3, <2>4
<1>. QED
  BY <1>4, <1>5

\* So is the size of the binary.
LEMMA BinaryIsPaged == Paged(BinarySize)
<1>1. BinarySize \in Nat /\ BinarySize % PageSize = 0 /\ PageSize \in Nat \ {0}
  BY SerializerAssumption
<1>2. \E q \in Nat : BinarySize = q * PageSize
  BY <1>1
<1>. QED
  BY <1>2 DEF Paged

\* What an attachment is.
Attachments ==
  [key : [child : Nat, ram : Nat], size : Nat \ {0}, content : Contents \cup {"zeros", "binary"}]

IsLayout(lay) ==
  /\ lay \in Seq(Attachments)
  /\ \A k \in DOMAIN lay : Paged(lay[k].size)
  /\ \A k, l \in DOMAIN lay : lay[k].key = lay[l].key => k = l

\* The places and the sizes of the attachments.
LEMMA LayoutHasPlaces ==
  ASSUME NEW lay, IsLayout(lay)
  PROVE  /\ Len(lay) \in Nat /\ DOMAIN lay = 1 .. Len(lay)
         /\ \A k \in 1 .. Len(lay) :
              lay[k] \in Attachments /\ lay[k].size \in Nat \ {0} /\ Paged(lay[k].size)
<1>1. lay \in Seq(Attachments) /\ \A k \in DOMAIN lay : Paged(lay[k].size)
  BY DEF IsLayout
<1>2. Len(lay) \in Nat /\ DOMAIN lay = 1 .. Len(lay)
  BY <1>1, LenProperties
<1>3. \A k \in 1 .. Len(lay) : lay[k] \in Attachments
  BY <1>1, <1>2, ElementOfSeq
<1>. QED
  BY <1>1, <1>2, <1>3 DEF Attachments

\* The sum of the sizes of the first n attachments.
LEMMA SizeOfFirst ==
  ASSUME NEW lay, IsLayout(lay), NEW n \in 0 .. Len(lay)
  PROVE  OffsetOf(lay, n + 1) = SumFunction([i \in 1 .. n |-> lay[i].size])
<1>1. Len(lay) \in Nat /\ \A k \in 1 .. Len(lay) : lay[k] \in Attachments
  BY LayoutHasPlaces
<1> DEFINE s == SubSeq(lay, 1, n)
<1>2. s \in Seq(Attachments) /\ Len(s) = n /\ DOMAIN s = 1 .. n /\ \A i \in 1 .. n : s[i] = lay[i]
  <2>1. 1 \in Int /\ n \in Int /\ n \in Nat /\ \A i \in 1 .. n : lay[i] \in Attachments
    BY <1>1
  <2>2. /\ s \in Seq(Attachments)
        /\ Len(s) = IF 1 <= n THEN n - 1 + 1 ELSE 0
        /\ \A i \in 1 .. n - 1 + 1 : s[i] = lay[1 + i - 1]
    BY <2>1, SubSeqProperties
  <2>. HIDE DEF s
  <2>3. Len(s) = n
    BY <2>1, <2>2
  <2>4. DOMAIN s = 1 .. n
    BY <2>2, <2>3, LenProperties
  <2>5. ASSUME NEW i \in 1 .. n PROVE s[i] = lay[i]
    <3>1. i \in 1 .. n - 1 + 1 /\ 1 + i - 1 = i
      BY <2>1
    <3>. QED
      BY <2>2, <3>1
  <2>. QED
    BY <2>2, <2>3, <2>4, <2>5
<1>3. n + 1 - 1 = n
  BY <1>1
<1>4. OffsetOf(lay, n + 1) = size(s)
  BY <1>3 DEF OffsetOf
<1>5. size(s) = SumFunction([i \in DOMAIN s |-> s[i].size])
  BY DEF size, SumOf
<1>. HIDE DEF s
<1>6. [i \in DOMAIN s |-> s[i].size] = [i \in 1 .. n |-> lay[i].size]
  BY <1>2
<1>. QED
  BY <1>4, <1>5, <1>6

\* An attachment begins where the one before it ends.
LEMMA OffsetsAdd ==
  ASSUME NEW lay, IsLayout(lay)
  PROVE  /\ OffsetOf(lay, 1) = 0
         /\ OffsetOf(lay, Len(lay) + 1) = size(lay)
         /\ \A k \in 1 .. Len(lay) : OffsetOf(lay, k + 1) = OffsetOf(lay, k) + lay[k].size
<1>1. /\ Len(lay) \in Nat /\ DOMAIN lay = 1 .. Len(lay)
      /\ \A k \in 1 .. Len(lay) : lay[k].size \in Nat
  BY LayoutHasPlaces
<1> DEFINE f(n) == [i \in 1 .. n |-> lay[i].size]
<1>2. \A n \in 0 .. Len(lay) : /\ DOMAIN f(n) = 1 .. n /\ \A i \in DOMAIN f(n) : f(n)[i] = lay[i].size /\ f(n)[i] \in Nat
  BY <1>1
<1>3. \A n \in 0 .. Len(lay) : OffsetOf(lay, n + 1) = SumFunction(f(n))
  BY SizeOfFirst
<1>4. OffsetOf(lay, 1) = 0
  <2>1. 0 \in 0 .. Len(lay) /\ 0 + 1 = 1 /\ 1 .. 0 = {}
    BY <1>1
  <2>2. DOMAIN f(0) = {}
    BY <2>1
  <2>. HIDE DEF f
  <2>3. SumFunction(f(0)) = 0
    BY <2>2, SumIsNat, FS_EmptySet
  <2>. QED
    BY <1>3, <2>1, <2>3
<1>5. OffsetOf(lay, Len(lay) + 1) = size(lay)
  <2>1. Len(lay) \in 0 .. Len(lay)
    BY <1>1
  <2>2. size(lay) = SumFunction(f(Len(lay)))
    BY <1>1 DEF size, SumOf
  <2>. HIDE DEF f
  <2>. QED
    BY <1>3, <2>1, <2>2
<1>6. ASSUME NEW k \in 1 .. Len(lay)
      PROVE  OffsetOf(lay, k + 1) = OffsetOf(lay, k) + lay[k].size
  <2>1. k \in 0 .. Len(lay) /\ k - 1 \in 0 .. Len(lay) /\ k - 1 + 1 = k /\ k \in Nat
    BY <1>1
  <2>2. k \in 1 .. k /\ 1 .. k - 1 = (1 .. k) \ {k}
    BY <2>1
  <2>3. IsFiniteSet(1 .. k)
    BY <2>1, FS_Interval
  <2>. HIDE DEF f
  <2>4. /\ DOMAIN f(k) = 1 .. k /\ \A i \in DOMAIN f(k) : f(k)[i] = lay[i].size /\ f(k)[i] \in Nat
        /\ DOMAIN f(k - 1) = 1 .. k - 1 /\ \A i \in DOMAIN f(k - 1) : f(k - 1)[i] = lay[i].size
    BY <1>2, <2>1
  <2>5. SumFunction(f(k)) = SumFunction(f(k - 1)) + f(k)[k]
    <3> DEFINE more == f(k)
               less == f(k - 1)
    <3>1. /\ DOMAIN more = 1 .. k /\ DOMAIN less = (1 .. k) \ {k}
          /\ \A i \in DOMAIN more : more[i] \in Nat
          /\ \A i \in DOMAIN less : less[i] = more[i]
      BY <2>2, <2>4
    <3>. HIDE DEF more, less
    <3>2. SumFunction(more) = SumFunction(less) + more[k]
      BY <2>2, <2>3, <3>1, SumOfOneMore
    <3>. QED
      BY <3>2 DEF more, less
  <2>6. OffsetOf(lay, k) = SumFunction(f(k - 1)) /\ OffsetOf(lay, k + 1) = SumFunction(f(k))
    BY <1>3, <2>1
  <2>7. f(k)[k] = lay[k].size
    BY <2>2, <2>4
  <2>. QED
    BY <2>5, <2>6, <2>7
<1>. QED
  BY <1>4, <1>5, <1>6

\* The offsets are whole pages and grow.
LEMMA OffsetsGrow ==
  ASSUME NEW lay, IsLayout(lay)
  PROVE  \A k \in 1 .. Len(lay) + 1 :
           /\ Paged(OffsetOf(lay, k)) /\ OffsetOf(lay, k) \in Nat
           /\ \A l \in 1 .. k - 1 : OffsetOf(lay, l) \in Nat /\ OffsetOf(lay, l) < OffsetOf(lay, k)
<1> DEFINE P(k) == /\ Paged(OffsetOf(lay, k)) /\ OffsetOf(lay, k) \in Nat
                   /\ \A l \in 1 .. k - 1 :
                        OffsetOf(lay, l) \in Nat /\ OffsetOf(lay, l) < OffsetOf(lay, k)
           Bad == {k \in 1 .. Len(lay) + 1 : ~ P(k)}
<1>1. /\ Len(lay) \in Nat
      /\ \A k \in 1 .. Len(lay) : lay[k].size \in Nat \ {0} /\ Paged(lay[k].size)
  BY LayoutHasPlaces
<1>2. P(1)
  <2>1. OffsetOf(lay, 1) = 0
    BY OffsetsAdd
  <2>2. Paged(0)
    <3>1. 0 = 0 * PageSize
      BY SerializerAssumption
    <3>. QED
      BY <3>1 DEF Paged
  <2>. QED
    BY <2>1, <2>2
<1>3. ASSUME NEW k \in 1 .. Len(lay), P(k) PROVE P(k + 1)
  <2>1. OffsetOf(lay, k + 1) = OffsetOf(lay, k) + lay[k].size
    BY OffsetsAdd
  <2>2. lay[k].size \in Nat \ {0} /\ Paged(lay[k].size)
    BY <1>1
  <2>3. Paged(OffsetOf(lay, k + 1)) /\ OffsetOf(lay, k + 1) \in Nat /\ OffsetOf(lay, k) < OffsetOf(lay, k + 1)
    BY <1>3, <2>1, <2>2, PagedSum
  <2>4. ASSUME NEW l \in 1 .. k
        PROVE  OffsetOf(lay, l) \in Nat /\ OffsetOf(lay, l) < OffsetOf(lay, k + 1)
    <3>1. CASE l = k
      BY <1>3, <2>3, <3>1
    <3>2. CASE l # k
      <4>1. l \in 1 .. k - 1
        BY <1>1, <3>2
      <4>2. OffsetOf(lay, l) \in Nat /\ OffsetOf(lay, l) < OffsetOf(lay, k)
        BY <1>3, <4>1
      <4>3. OffsetOf(lay, k) \in Nat
        BY <1>3
      <4>. QED
        BY <2>3, <4>2, <4>3
    <3>. QED
      BY <3>1, <3>2
  <2>5. k + 1 - 1 = k
    BY <1>1
  <2>. QED
    BY <2>3, <2>4, <2>5
<1>. HIDE DEF P
<1>4. Bad = {}
  <2>. SUFFICES ASSUME Bad # {} PROVE FALSE
    OBVIOUS
  <2>1. Bad \in SUBSET Nat
    BY <1>1
  <2>2. PICK k \in Bad : \A m \in Bad : k <= m
    <3>. HIDE DEF Bad
    <3>. QED
      BY <2>1, NatHasLeast
  <2>3. k \in 1 .. Len(lay) + 1 /\ ~ P(k)
    BY <2>2
  <2>4. k - 1 \in 1 .. Len(lay) /\ k - 1 \in 1 .. Len(lay) + 1 /\ k - 1 + 1 = k /\ ~ (k <= k - 1)
    BY <1>1, <1>2, <2>3
  <2>5. P(k - 1)
    BY <2>2, <2>4
  <2>. QED
    BY <1>3, <2>3, <2>4, <2>5
<1>. QED
  BY <1>4 DEF P

\* No two attachments begin at the same offset, and all begin before the end.
LEMMA OffsetsAreDistinct ==
  ASSUME NEW lay, IsLayout(lay)
  PROVE  /\ \A k \in DOMAIN lay :
              OffsetOf(lay, k) \in Nat /\ OffsetOf(lay, k) % PageSize = 0 /\ OffsetOf(lay, k) < size(lay)
         /\ \A k, l \in DOMAIN lay : OffsetOf(lay, k) = OffsetOf(lay, l) => k = l
         /\ size(lay) \in Nat
<1>1. Len(lay) \in Nat /\ DOMAIN lay = 1 .. Len(lay)
  BY LayoutHasPlaces
<1>2. OffsetOf(lay, Len(lay) + 1) = size(lay)
  BY OffsetsAdd
<1>3. ASSUME NEW k \in DOMAIN lay, NEW l \in 1 .. Len(lay) + 1, k < l
      PROVE  OffsetOf(lay, k) < OffsetOf(lay, l)
  <2>1. k \in 1 .. l - 1
    BY <1>1, <1>3
  <2>. QED
    BY <2>1, OffsetsGrow
<1>4. ASSUME NEW k \in 1 .. Len(lay) + 1
      PROVE  OffsetOf(lay, k) \in Nat /\ OffsetOf(lay, k) % PageSize = 0
  <2>1. Paged(OffsetOf(lay, k))
    BY OffsetsGrow
  <2>. QED
    BY <2>1, PagedIsMultiple
<1>5. Len(lay) + 1 \in 1 .. Len(lay) + 1 /\ \A k \in DOMAIN lay : k \in 1 .. Len(lay) + 1 /\ k < Len(lay) + 1
  BY <1>1
<1>6. size(lay) \in Nat
  BY <1>2, <1>4, <1>5
<1>7. ASSUME NEW k \in DOMAIN lay
      PROVE  OffsetOf(lay, k) \in Nat /\ OffsetOf(lay, k) % PageSize = 0 /\ OffsetOf(lay, k) < size(lay)
  BY <1>2, <1>3, <1>4, <1>5
<1>8. ASSUME NEW k \in DOMAIN lay, NEW l \in DOMAIN lay, OffsetOf(lay, k) = OffsetOf(lay, l)
      PROVE  k = l
  <2>1. OffsetOf(lay, k) \in Nat /\ OffsetOf(lay, l) \in Nat
    BY <1>7
  <2>2. ~ (k < l) /\ ~ (l < k)
    <3>1. k \in 1 .. Len(lay) + 1 /\ l \in 1 .. Len(lay) + 1
      BY <1>5
    <3>2. k < l => OffsetOf(lay, k) < OffsetOf(lay, l)
      BY <1>3, <3>1
    <3>3. l < k => OffsetOf(lay, l) < OffsetOf(lay, k)
      BY <1>3, <3>1
    <3>. QED
      BY <1>8, <2>1, <3>2, <3>3
  <2>3. k \in Nat /\ l \in Nat
    BY <1>1
  <2>. QED
    BY <2>2, <2>3
<1>. QED
  BY <1>6, <1>7, <1>8

\* What the message is told is where the attachment begins.
LEMMA KeyIsFound ==
  ASSUME NEW lay, IsLayout(lay), size(lay) < Word,
         NEW k \in DOMAIN lay, NEW i, NEW j, lay[k].key = [child |-> i, ram |-> j]
  PROVE  OffsetOfKey(lay, i, j) = OffsetOf(lay, k)
<1> DEFINE I == {n \in 1 .. Len(lay) : lay[n].key = [child |-> i, ram |-> j]}
<1>1. Len(lay) \in Nat /\ DOMAIN lay = 1 .. Len(lay)
  BY LayoutHasPlaces
<1>2. I = {k}
  BY <1>1 DEF IsLayout
<1>3. SelectInSeq(lay, LAMBDA a : a.key = [child |-> i, ram |-> j]) = IF I # {} THEN Min(I) ELSE 0
  BY DEF SelectInSeq
<1>. HIDE DEF I
<1>4. Min({k}) = k
  <2>1. k \in {k} /\ \A y \in {k} : k <= y
    BY <1>1
  <2>. QED
    BY <2>1 DEF Min
<1>5. OffsetOfKey(lay, i, j) = OffsetOf(lay, k) % Word
  BY <1>2, <1>3, <1>4 DEF OffsetOfKey
<1>6. OffsetOf(lay, k) \in Nat /\ OffsetOf(lay, k) < size(lay) /\ size(lay) \in Nat
  BY OffsetsAreDistinct
<1>7. Word \in Nat \ {0}
  BY SerializerAssumption
<1>. QED
  BY <1>5, <1>6, <1>7

\* The region map holds each attachment at its offset.
Offsets(lay) == {OffsetOf(lay, k) : k \in DOMAIN lay}

\* What is placed is found at its offset.
LEMMA PlacedIsThere ==
  ASSUME NEW lay, IsLayout(lay)
  PROVE  /\ DOMAIN Placed(lay) = Offsets(lay)
         /\ \A k \in DOMAIN lay : Placed(lay)[OffsetOf(lay, k)] = lay[k].content
<1>1. ASSUME NEW k \in DOMAIN lay
      PROVE  Placed(lay)[OffsetOf(lay, k)] = lay[k].content
  <2> DEFINE n == CHOOSE n \in DOMAIN lay : OffsetOf(lay, n) = OffsetOf(lay, k)
  <2>1. n \in DOMAIN lay /\ OffsetOf(lay, n) = OffsetOf(lay, k)
    OBVIOUS
  <2>2. OffsetOf(lay, k) \in {OffsetOf(lay, l) : l \in DOMAIN lay}
    OBVIOUS
  <2>3. Placed(lay)[OffsetOf(lay, k)] = lay[n].content
    BY <2>2 DEF Placed
  <2>. HIDE DEF n
  <2>4. n = k
    BY <2>1, OffsetsAreDistinct
  <2>. QED
    BY <2>3, <2>4
<1>. QED
  BY <1>1 DEF Placed, Offsets

\* There are as many offsets as attachments.
LEMMA OffsetsAreAsMany ==
  ASSUME NEW lay, IsLayout(lay)
  PROVE  Cardinality(Offsets(lay)) = Len(lay)
<1> DEFINE g == [k \in 1 .. Len(lay) |-> OffsetOf(lay, k)]
<1>1. Len(lay) \in Nat /\ DOMAIN lay = 1 .. Len(lay)
  BY LayoutHasPlaces
<1>2. g \in [1 .. Len(lay) -> Offsets(lay)] /\ \A o \in Offsets(lay) : \E k \in 1 .. Len(lay) : g[k] = o
  BY <1>1 DEF Offsets
<1>3. \A k, l \in 1 .. Len(lay) : g[k] = g[l] => k = l
  BY <1>1, OffsetsAreDistinct
<1>. HIDE DEF g
<1>4. g \in Bijection(1 .. Len(lay), Offsets(lay))
  BY <1>2, <1>3 DEF Bijection, Injection, Surjection, IsInjective
<1>5. ExistsBijection(1 .. Len(lay), Offsets(lay))
  BY <1>4 DEF ExistsBijection
<1>. QED
  BY <1>1, <1>5, FS_CountingElements

\* Inserting attachments with new keys keeps the layout, and all attachments.
LEMMA LayoutExtends ==
  ASSUME NEW lay, IsLayout(lay), NEW new, IsLayout(new),
         \A k \in DOMAIN new : \A l \in DOMAIN lay : new[k].key # lay[l].key
  PROVE  LET r == Inserted(new, lay)
         IN  /\ IsLayout(r)
             /\ Len(new) > 0 => r[1] = new[Len(new)]
             /\ \A k \in DOMAIN new : \E l \in DOMAIN r : r[l] = new[k]
             /\ \A k \in DOMAIN lay : \E l \in DOMAIN r : r[l] = lay[k]
             /\ \A l \in DOMAIN r : \/ \E k \in DOMAIN new : r[l] = new[k]
                                    \/ \E k \in DOMAIN lay : r[l] = lay[k]
<1> DEFINE r == Inserted(new, lay)
           n == Len(new)
           m == Len(lay)
<1>0. lay \in Seq(Attachments) /\ new \in Seq(Attachments)
  BY DEF IsLayout
<1>1. /\ n \in Nat /\ DOMAIN new = 1 .. n /\ \A k \in 1 .. n : Paged(new[k].size)
      /\ m \in Nat /\ DOMAIN lay = 1 .. m /\ \A k \in 1 .. m : Paged(lay[k].size)
  BY LayoutHasPlaces
<1>2. /\ r \in Seq(Attachments) /\ Len(r) = n + m
      /\ \A i \in 1 .. n : r[i] = new[n + 1 - i]
      /\ \A i \in 1 .. m : r[n + i] = lay[i]
  <2>1. r \in Seq(Attachments)
    BY <1>0, InsertedIs
  <2>2. Len(r) = n + m
    BY <1>0, InsertedIs
  <2>3. \A i \in 1 .. n : r[i] = new[n + 1 - i]
    BY <1>0, InsertedIs
  <2>4. \A i \in 1 .. m : r[n + i] = lay[i]
    BY <1>0, InsertedIs
  <2>. QED
    BY <2>1, <2>2, <2>3, <2>4
<1>. HIDE DEF r
<1>3. DOMAIN r = 1 .. n + m
  BY <1>2, LenProperties
<1>. HIDE DEF n, m
<1>4. ASSUME NEW l \in DOMAIN r
      PROVE  \/ l \in 1 .. n /\ n + 1 - l \in 1 .. n /\ r[l] = new[n + 1 - l]
             \/ l \notin 1 .. n /\ l - n \in 1 .. m /\ r[l] = lay[l - n]
  <2>0. l \in Nat /\ 1 <= l /\ l <= n + m
    BY <1>1, <1>3
  <2>1. CASE l <= n
    <3>1. l \in 1 .. n /\ n + 1 - l \in 1 .. n
      BY <1>1, <2>0, <2>1
    <3>. QED
      BY <1>2, <3>1
  <2>2. CASE ~ (l <= n)
    <3>1. l \notin 1 .. n /\ l - n \in 1 .. m /\ n + (l - n) = l
      BY <1>1, <2>0, <2>2
    <3>2. r[n + (l - n)] = lay[l - n]
      BY <1>2, <3>1
    <3>. QED
      BY <3>1, <3>2
  <2>. QED
    BY <2>1, <2>2
<1>5. \A k \in 1 .. n : \E l \in DOMAIN r : r[l] = new[k]
  <2>. SUFFICES ASSUME NEW k \in 1 .. n PROVE \E l \in DOMAIN r : r[l] = new[k]
    OBVIOUS
  <2>1. n + 1 - k \in 1 .. n /\ n + 1 - k \in DOMAIN r /\ n + 1 - (n + 1 - k) = k
    BY <1>1, <1>3
  <2>2. r[n + 1 - k] = new[n + 1 - (n + 1 - k)]
    BY <1>2, <2>1
  <2>. QED
    BY <2>1, <2>2
<1>6. \A k \in 1 .. m : \E l \in DOMAIN r : r[l] = lay[k]
  <2>. SUFFICES ASSUME NEW k \in 1 .. m PROVE \E l \in DOMAIN r : r[l] = lay[k]
    OBVIOUS
  <2>1. n + k \in DOMAIN r
    BY <1>1, <1>3
  <2>. QED
    BY <1>2, <2>1
<1>7. ASSUME NEW k \in DOMAIN r, NEW l \in DOMAIN r, r[k].key = r[l].key
      PROVE  k = l
  <2>1. \A p, q \in 1 .. n : new[p].key = new[q].key => p = q
    BY <1>1 DEF IsLayout
  <2>2. \A p, q \in 1 .. m : lay[p].key = lay[q].key => p = q
    BY <1>1 DEF IsLayout
  <2>3. \A p \in 1 .. n : \A q \in 1 .. m : new[p].key # lay[q].key
    BY <1>1
  <2>4. k \in Nat /\ l \in Nat
    BY <1>1, <1>3
  <2>5. CASE k \in 1 .. n /\ l \in 1 .. n
    <3>1. n + 1 - k \in 1 .. n /\ n + 1 - l \in 1 .. n /\ r[k] = new[n + 1 - k] /\ r[l] = new[n + 1 - l]
      BY <1>4, <2>5
    <3>2. n + 1 - k = n + 1 - l
      BY <1>7, <2>1, <3>1
    <3>. QED
      BY <1>1, <2>4, <3>2
  <2>6. CASE k \notin 1 .. n /\ l \notin 1 .. n
    <3>1. k - n \in 1 .. m /\ l - n \in 1 .. m /\ r[k] = lay[k - n] /\ r[l] = lay[l - n]
      BY <1>4, <2>6
    <3>2. k - n = l - n
      BY <1>7, <2>2, <3>1
    <3>. QED
      BY <1>1, <2>4, <3>2
  <2>7. CASE k \in 1 .. n /\ l \notin 1 .. n
    <3>1. n + 1 - k \in 1 .. n /\ l - n \in 1 .. m /\ r[k] = new[n + 1 - k] /\ r[l] = lay[l - n]
      BY <1>4, <2>7
    <3>. QED
      BY <1>7, <2>3, <3>1
  <2>8. CASE k \notin 1 .. n /\ l \in 1 .. n
    <3>1. k - n \in 1 .. m /\ n + 1 - l \in 1 .. n /\ r[k] = lay[k - n] /\ r[l] = new[n + 1 - l]
      BY <1>4, <2>8
    <3>. QED
      BY <1>7, <2>3, <3>1
  <2>. QED
    BY <2>5, <2>6, <2>7, <2>8
<1>8. \A l \in DOMAIN r : Paged(r[l].size)
  BY <1>1, <1>4
<1>9. IsLayout(r)
  BY <1>2, <1>7, <1>8 DEF IsLayout
<1>10. n > 0 => r[1] = new[n]
  <2>. SUFFICES ASSUME n > 0 PROVE r[1] = new[n]
    OBVIOUS
  <2>1. 1 \in 1 .. n /\ n + 1 - 1 = n
    BY <1>1
  <2>. QED
    BY <1>2, <2>1
<1>11. \A l \in DOMAIN r : \/ \E k \in DOMAIN new : r[l] = new[k]
                           \/ \E k \in DOMAIN lay : r[l] = lay[k]
  BY <1>1, <1>4
<1>. QED
  BY <1>1, <1>5, <1>6, <1>9, <1>10, <1>11 DEF r, n

-----------------------------------------------------------------------------
(* What is written is what is read.                                            *)

IsSequence(s) == \E S : s \in Seq(S)

\* The places of a sequence.
LEMMA SequenceHasPlaces ==
  ASSUME NEW s, IsSequence(s)
  PROVE  Len(s) \in Nat /\ DOMAIN s = 1 .. Len(s)
<1>1. PICK S : s \in Seq(S)
  BY DEF IsSequence
<1>. QED
  BY <1>1, LenProperties

\* A function on 1 .. n is a sequence of length n.
LEMMA FunctionIsSequence ==
  ASSUME NEW n \in Nat, NEW f, f = [i \in 1 .. n |-> f[i]]
  PROVE  IsSequence(f) /\ Len(f) = n /\ DOMAIN f = 1 .. n
<1> DEFINE S == {f[i] : i \in 1 .. n}
<1>1. f \in [1 .. n -> S]
  <2>1. \A i \in 1 .. n : f[i] \in S
    OBVIOUS
  <2>. HIDE DEF S
  <2>. QED
    BY <2>1
<1>. HIDE DEF S
<1>2. f \in Seq(S)
  BY <1>1, SeqDef
<1>3. Len(f) \in Nat /\ DOMAIN f = 1 .. Len(f)
  BY <1>2, LenProperties
<1>4. DOMAIN f = 1 .. n
  BY <1>1
<1>5. Len(f) = n
  <2>1. \A k \in Nat : k \in 1 .. Len(f) <=> k \in 1 .. n
    BY <1>3, <1>4
  <2>2. n <= Len(f)
    <3>1. CASE n = 0
      BY <1>3, <3>1
    <3>2. CASE n # 0
      <4>1. n \in 1 .. n
        BY <3>2
      <4>. QED
        BY <1>3, <2>1, <4>1
    <3>. QED
      BY <3>1, <3>2
  <2>3. Len(f) <= n
    <3>1. CASE Len(f) = 0
      BY <3>1
    <3>2. CASE Len(f) # 0
      <4>1. Len(f) \in 1 .. Len(f)
        BY <1>3, <3>2
      <4>. QED
        BY <1>3, <2>1, <4>1
    <3>. QED
      BY <3>1, <3>2
  <2>. QED
    BY <1>3, <2>2, <2>3
<1>. QED
  BY <1>2, <1>4, <1>5 DEF IsSequence

\* parse() takes the records from the last to the first and inserts each at the
\* head: the order stays.
LEMMA OrderIsKept ==
  ASSUME NEW n \in Nat, NEW list, list = [i \in 1 .. n |-> list[i]]
  PROVE  /\ Len(parse_list(list)) = n /\ DOMAIN parse_list(list) = 1 .. n
         /\ \A i \in 1 .. n : parse_list(list)[i] = list[i]
<1>1. Len(list) = n /\ DOMAIN list = 1 .. n
  BY FunctionIsSequence
<1> DEFINE r == Reverse(list)
<1>2. r = [i \in 1 .. n |-> list[n - i + 1]]
  BY <1>1 DEF Reverse
<1>. HIDE DEF r
<1>3. r = [i \in 1 .. n |-> r[i]] /\ \A i \in 1 .. n : r[i] = list[n - i + 1]
  BY <1>2
<1>4. IsSequence(r) /\ Len(r) = n
  BY <1>3, FunctionIsSequence
<1>5. PICK S : r \in Seq(S)
  BY <1>4 DEF IsSequence
<1> DEFINE none == <<>>
           p == Inserted(r, none)
<1>6. none \in Seq(S) /\ Len(none) = 0
  BY EmptySeq
<1>. HIDE DEF none
<1>7. p \in Seq(S)
  BY <1>5, <1>6, InsertedIs
<1>8. Len(p) = n
  <2>1. Len(p) = Len(r) + Len(none)
    BY <1>5, <1>6, InsertedIs
  <2>. QED
    BY <1>4, <1>6, <2>1
<1>9. \A i \in 1 .. Len(r) : p[i] = r[Len(r) + 1 - i]
  BY <1>5, <1>6, InsertedInReverse
<1>. HIDE DEF p
<1>10. \A i \in 1 .. n : p[i] = list[i]
  <2>. SUFFICES ASSUME NEW i \in 1 .. n PROVE p[i] = list[i]
    OBVIOUS
  <2>1. n + 1 - i \in 1 .. n /\ n - (n + 1 - i) + 1 = i
    OBVIOUS
  <2>2. p[i] = r[n + 1 - i]
    BY <1>4, <1>9
  <2>. QED
    BY <1>3, <2>1, <2>2
<1>11. parse_list(list) = p
  BY DEF parse_list, p, r, none
<1>12. DOMAIN p = 1 .. n
  BY <1>7, <1>8, LenProperties
<1>. QED
  BY <1>8, <1>10, <1>11, <1>12

\* The fields of a Child_info.
LEMMA FieldsOfChild ==
  ASSUME NEW c \in ChildInfos
  PROVE  /\ c.slots \in Seq(Badges \cup {UNUSED, INVALID_ID})
         /\ DOMAIN c.sessions \subseteq {"pd", "cpu", "timer", "log", "rm", "rom"}
         /\ \A s \in DOMAIN c.sessions : c.sessions[s] \in Badges
         /\ \A k \in Lists : c.lists[k] \in Seq(Badges)
         /\ c.threads \in Seq(ThreadInfos)
         /\ \A a \in Areas : c.areas[a] \in RegionMaps
         /\ c.maps \in Seq(RegionMaps)
         /\ "rm" \in DOMAIN c.sessions \/ c.maps = <<>>
         /\ c.rams \in Seq(Dataspaces)
<1>1. /\ c \in [slots : Seq(Badges \cup {UNUSED, INVALID_ID}),
                sessions : UNION {[{"pd", "cpu"} \cup open -> Badges] : open \in SUBSET Optional},
                lists : [Lists -> Seq(Badges)],
                threads : Seq(ThreadInfos),
                areas : [Areas -> RegionMaps],
                maps : Seq(RegionMaps),
                rams : Seq(Dataspaces)]
      /\ "rm" \in DOMAIN c.sessions \/ c.maps = <<>>
  BY DEF ChildInfos
<1>2. PICK open \in SUBSET Optional : c.sessions \in [{"pd", "cpu"} \cup open -> Badges]
  BY <1>1
<1>3. /\ DOMAIN c.sessions \subseteq {"pd", "cpu", "timer", "log", "rm", "rom"}
      /\ \A s \in DOMAIN c.sessions : c.sessions[s] \in Badges
  BY <1>2 DEF Optional
<1>. QED
  BY <1>1, <1>3

\* A capability's record has a slot of the capability, or none.
LEMMA RecordIsParsed ==
  ASSUME NEW c \in ChildInfos, NEW badge \in Badges
  PROVE  IsRecord(parse_normal_info(normal_info(capability_mapping(c.slots), badge)), c, badge)
<1> DEFINE cm == capability_mapping(c.slots)
           used == {n \in DOMAIN c.slots : c.slots[n] \notin {UNUSED, INVALID_ID}}
           places == {n \in DOMAIN c.slots : c.slots[n] = badge}
           found == {i \in DOMAIN cm : cm[i].badge = badge}
           kcap == find_kcap_by_badge(cm, badge)
           kcaps == {(i - 1) * SlotSize : i \in places}
           r == parse_normal_info(normal_info(cm, badge))
<1>1. Len(c.slots) \in Nat /\ DOMAIN c.slots = 1 .. Len(c.slots)
  BY FieldsOfChild, LenProperties
<1>2. badge \notin {UNUSED, INVALID_ID}
  BY SerializerAssumption
<1>3. /\ DOMAIN cm = used
      /\ \A i \in used : cm[i].badge = c.slots[i] /\ cm[i].kcap = (i - 1) * SlotSize
  BY DEF capability_mapping
<1>4. found = places
  BY <1>2, <1>3
<1>5. kcap = IF found = {} THEN 0 ELSE cm[Min(found)].kcap
  BY DEF find_kcap_by_badge
<1>6. r.badge = badge /\ r.kcap = kcap % KcapRange
  BY DEF parse_normal_info, normal_info
<1>7. KcapRange \in Nat \ {0}
  BY SerializerAssumption
<1>8. places # {} => kcap \in kcaps
  <2>. SUFFICES ASSUME places # {} PROVE kcap \in kcaps
    OBVIOUS
  <2>1. places \in SUBSET Nat
    BY <1>1
  <2>2. Min(places) \in places
    <3>. HIDE DEF places
    <3>1. PICK x \in places : \A y \in places : x <= y
      BY <2>1, NatHasLeast
    <3>. QED
      BY <3>1 DEF Min
  <2>3. Min(places) \in used
    BY <1>2, <2>2
  <2>4. kcap = cm[Min(places)].kcap
    BY <1>4, <1>5
  <2>. HIDE DEF cm, kcap, used, places
  <2>. QED
    BY <1>3, <2>2, <2>3, <2>4
<1>9. places = {} => kcaps = {} /\ kcap = 0
  BY <1>4, <1>5
<1>10. IsRecord(r, c, badge) <=>
         /\ r.badge = badge
         /\ r.kcap \in {k % KcapRange : k \in kcaps} \/ (kcaps = {} /\ r.kcap = 0)
  BY DEF IsRecord
<1>. HIDE DEF r, kcaps, kcap, places
<1>11. CASE places = {}
  <2>1. 0 % KcapRange = 0
    BY <1>7
  <2>. QED
    BY <1>6, <1>9, <1>10, <1>11, <2>1 DEF r
<1>12. CASE places # {}
  BY <1>6, <1>8, <1>10, <1>12 DEF r
<1>. QED
  BY <1>11, <1>12

\* The records of a list, in their order.
LEMMA RecordsAreParsed ==
  ASSUME NEW c \in ChildInfos, NEW list \in Seq(Badges)
  PROVE  AreRecords(parse_records(add_records(capability_mapping(c.slots), list)), c, list)
<1> DEFINE cm == capability_mapping(c.slots)
           n == Len(list)
           rs == [i \in 1 .. n |-> parse_normal_info(normal_info(cm, list[i]))]
<1>1. n \in Nat /\ DOMAIN list = 1 .. n /\ \A i \in 1 .. n : list[i] \in Badges
  BY LenProperties, ElementOfSeq
<1>2. parse_records(add_records(cm, list)) = parse_list(rs)
  BY <1>1 DEF parse_records, add_records
<1>3. \A i \in 1 .. n : IsRecord(rs[i], c, list[i])
  BY <1>1, RecordIsParsed
<1>4. rs = [i \in 1 .. n |-> rs[i]]
  OBVIOUS
<1>. HIDE DEF rs, n, cm
<1>5. /\ Len(parse_list(rs)) = n /\ DOMAIN parse_list(rs) = 1 .. n
      /\ \A i \in 1 .. n : parse_list(rs)[i] = rs[i]
  BY <1>1, <1>4, OrderIsKept
<1>. QED
  BY <1>2, <1>3, <1>5 DEF AreRecords, n, cm

\* A number that 32 bits hold is the same after it was cut.
LEMMA CutIsKept ==
  ASSUME NEW number \in Nat
  PROVE  IsKept(number % Word, number)
<1>1. Word \in Nat \ {0}
  BY SerializerAssumption
<1>. QED
  BY <1>1 DEF IsKept

\* A region map, with its attached regions.
LEMMA MapIsParsed ==
  ASSUME NEW c \in ChildInfos, NEW map \in RegionMaps
  PROVE  IsMap(parse_region_map(add_region_map(capability_mapping(c.slots), map)), c, map)
<1> DEFINE cm == capability_mapping(c.slots)
           n == Len(map.regions)
           rs == [i \in 1 .. n |-> parse_attached_region(add_attached_region(cm, map.regions[i]))]
           m == parse_region_map(add_region_map(cm, map))
           Told(r, region) == /\ IsRecord(r.info, c, region.badge)
                              /\ IsKept(r.size, region.size)
                              /\ IsKept(r.offset, region.offset)
                              /\ IsKept(r.rel_addr, region.rel_addr)
<1>1. map.badge \in Badges /\ map.size \in Nat /\ map.regions \in Seq(Regions)
  BY DEF RegionMaps
<1>2. n \in Nat /\ DOMAIN map.regions = 1 .. n /\ \A i \in 1 .. n : map.regions[i] \in Regions
  BY <1>1, LenProperties, ElementOfSeq
<1>3. /\ m.info = parse_normal_info(normal_info(cm, map.badge)) /\ m.size = map.size % Word
      /\ m.regions = parse_list(rs)
  BY <1>2 DEF parse_region_map, add_region_map
<1>4. ASSUME NEW i \in 1 .. n PROVE Told(rs[i], map.regions[i])
  <2> DEFINE region == map.regions[i]
             added == add_attached_region(cm, region)
  <2>1. /\ region.badge \in Badges /\ region.size \in Nat /\ region.offset \in Nat
        /\ region.rel_addr \in Nat
    BY <1>2 DEF Regions
  <2>2. added = [info |-> normal_info(cm, region.badge), size |-> region.size % Word,
                 offset |-> region.offset % Word, rel_addr |-> region.rel_addr % Word]
    BY DEF add_attached_region
  <2>3. rs[i] = [added EXCEPT !.info = parse_normal_info(added.info)]
    BY DEF parse_attached_region
  <2>. HIDE DEF rs, cm, added, region
  <2>4. /\ rs[i].info = parse_normal_info(normal_info(cm, region.badge))
        /\ rs[i].size = region.size % Word /\ rs[i].offset = region.offset % Word
        /\ rs[i].rel_addr = region.rel_addr % Word
    BY <2>2, <2>3
  <2>5. IsRecord(rs[i].info, c, region.badge)
    BY <2>1, <2>4, RecordIsParsed DEF cm
  <2>6. IsKept(rs[i].size, region.size)
    BY <2>1, <2>4, CutIsKept
  <2>7. IsKept(rs[i].offset, region.offset)
    BY <2>1, <2>4, CutIsKept
  <2>8. IsKept(rs[i].rel_addr, region.rel_addr)
    BY <2>1, <2>4, CutIsKept
  <2>. QED
    BY <2>5, <2>6, <2>7, <2>8 DEF region
<1>5. rs = [i \in 1 .. n |-> rs[i]]
  OBVIOUS
<1>. HIDE DEF rs, n, m, Told
<1>6. /\ Len(parse_list(rs)) = n /\ DOMAIN parse_list(rs) = 1 .. n
      /\ \A i \in 1 .. n : parse_list(rs)[i] = rs[i]
  BY <1>2, <1>5, OrderIsKept
<1>7. IsRecord(m.info, c, map.badge) /\ IsKept(m.size, map.size)
  BY <1>1, <1>3, RecordIsParsed, CutIsKept
<1>8. Len(m.regions) = Len(map.regions)
  BY <1>3, <1>6 DEF n
<1>9. ASSUME NEW i \in DOMAIN m.regions PROVE Told(m.regions[i], map.regions[i])
  <2>1. i \in 1 .. n /\ m.regions[i] = rs[i]
    BY <1>3, <1>6
  <2>. QED
    BY <1>4, <2>1
<1>. QED
  BY <1>7, <1>8, <1>9 DEF IsMap, m, Told

\* A thread.
LEMMA ThreadIsParsed ==
  ASSUME NEW c \in ChildInfos, NEW thread \in ThreadInfos
  PROVE  IsThread(parse_cpu_thread(add_cpu_thread(capability_mapping(c.slots), thread)), c, thread)
<1> DEFINE cm == capability_mapping(c.slots)
           t == parse_cpu_thread(add_cpu_thread(cm, thread))
<1>1. thread.badge \in Badges /\ thread.utcb \in Nat
  BY DEF ThreadInfos
<1>2. /\ t.info = parse_normal_info(normal_info(cm, thread.badge))
      /\ t.utcb = thread.utcb % Word
      /\ t.regs = [r \in Transferred |-> thread.regs[r]]
  BY DEF parse_cpu_thread, add_cpu_thread
<1>3. IsKept(t.utcb, thread.utcb)
  <2>. HIDE DEF t
  <2>. QED
    BY <1>1, <1>2, CutIsKept
<1>4. IsRecord(t.info, c, thread.badge)
  BY <1>1, <1>2, RecordIsParsed
<1>. HIDE DEF t
<1>. QED
  BY <1>2, <1>3, <1>4 DEF IsThread, t

\* What the message says of a child: everything but where its dataspaces are.
IsMessageOf(m, c) ==
  LET t == child_message(c)
  IN  /\ m = [sessions |-> t.sessions, lists |-> t.lists, threads |-> t.threads,
              areas |-> t.areas, maps |-> t.maps, rams |-> m.rams, binary |-> m.binary]
      /\ m.rams = [j \in DOMAIN t.rams |->
                     [info |-> t.rams[j].info, size |-> t.rams[j].size,
                      offset |-> m.rams[j].offset]]

\* The parts of the message.
LEMMA MessageHasParts ==
  ASSUME NEW c \in ChildInfos, NEW m, IsMessageOf(m, c)
  PROVE  LET cm == capability_mapping(c.slots)
         IN  /\ m.sessions = [s \in DOMAIN c.sessions |-> normal_info(cm, c.sessions[s])]
             /\ m.lists = [k \in Lists |-> add_records(cm, c.lists[k])]
             /\ Len(c.threads) \in Nat
             /\ m.threads = [i \in 1 .. Len(c.threads) |-> add_cpu_thread(cm, c.threads[i])]
             /\ m.areas = [a \in Areas |-> add_region_map(cm, c.areas[a])]
             /\ Len(c.maps) \in Nat
             /\ m.maps = [i \in 1 .. Len(c.maps) |-> add_region_map(cm, c.maps[i])]
             /\ Len(c.rams) \in Nat
             /\ m.rams = [j \in 1 .. Len(c.rams) |-> m.rams[j]]
             /\ \A j \in 1 .. Len(c.rams) : /\ m.rams[j].info = normal_info(cm, c.rams[j].badge)
                                            /\ m.rams[j].size = c.rams[j].size
<1> DEFINE cm == capability_mapping(c.slots)
           t == child_message(c)
<1>1. /\ Len(c.threads) \in Nat /\ DOMAIN c.threads = 1 .. Len(c.threads)
      /\ Len(c.maps) \in Nat /\ DOMAIN c.maps = 1 .. Len(c.maps)
      /\ Len(c.rams) \in Nat /\ DOMAIN c.rams = 1 .. Len(c.rams)
  BY FieldsOfChild, LenProperties
<1>2. /\ t.sessions = session_info(cm, c)
      /\ t.lists = [k \in Lists |-> add_records(cm, c.lists[k])]
      /\ t.threads = [i \in DOMAIN c.threads |-> add_cpu_thread(cm, c.threads[i])]
      /\ t.areas = [a \in Areas |-> add_region_map(cm, c.areas[a])]
      /\ t.maps = IF "rm" \in DOMAIN c.sessions
                  THEN [i \in DOMAIN c.maps |-> add_region_map(cm, c.maps[i])] ELSE <<>>
      /\ t.rams = [j \in DOMAIN c.rams |-> add_ram_dataspace(cm, c.rams[j])]
  BY DEF child_message
<1>3. t.maps = [i \in 1 .. Len(c.maps) |-> add_region_map(cm, c.maps[i])]
  <2>1. CASE "rm" \in DOMAIN c.sessions
    BY <1>1, <1>2, <2>1
  <2>2. CASE "rm" \notin DOMAIN c.sessions
    <3>1. c.maps = <<>> /\ Len(c.maps) = 0
      BY <2>2, FieldsOfChild, EmptySeq
    <3>2. 1 .. 0 = {}
      OBVIOUS
    <3>3. <<>> = [i \in {} |-> add_region_map(cm, c.maps[i])]
      OBVIOUS
    <3>4. t.maps = <<>>
      BY <1>2, <2>2
    <3>. HIDE DEF t
    <3>. QED
      BY <3>1, <3>2, <3>3, <3>4
  <2>. QED
    BY <2>1, <2>2
<1>4. \A j \in DOMAIN c.rams : /\ t.rams[j].info = normal_info(cm, c.rams[j].badge)
                               /\ t.rams[j].size = c.rams[j].size
  BY <1>2 DEF add_ram_dataspace
<1>5. DOMAIN t.rams = 1 .. Len(c.rams)
  BY <1>1, <1>2
<1>6. /\ m.sessions = t.sessions /\ m.lists = t.lists /\ m.threads = t.threads
      /\ m.areas = t.areas /\ m.maps = t.maps
      /\ m.rams = [j \in DOMAIN t.rams |-> m.rams[j]]
      /\ \A j \in DOMAIN t.rams :
           m.rams[j].info = t.rams[j].info /\ m.rams[j].size = t.rams[j].size
  <2>1. m = [sessions |-> t.sessions, lists |-> t.lists, threads |-> t.threads,
             areas |-> t.areas, maps |-> t.maps, rams |-> m.rams, binary |-> m.binary]
    BY DEF IsMessageOf
  <2>2. m.rams = [j \in DOMAIN t.rams |->
                    [info |-> t.rams[j].info, size |-> t.rams[j].size,
                     offset |-> m.rams[j].offset]]
    BY DEF IsMessageOf
  <2>. HIDE DEF t
  <2>. QED
    BY <2>1, <2>2
<1>. HIDE DEF t, cm
<1>7. m.sessions = [s \in DOMAIN c.sessions |-> normal_info(cm, c.sessions[s])]
  BY <1>2, <1>6 DEF session_info
<1>8. /\ m.rams = [j \in 1 .. Len(c.rams) |-> m.rams[j]]
      /\ \A j \in 1 .. Len(c.rams) : /\ m.rams[j].info = normal_info(cm, c.rams[j].badge)
                                     /\ m.rams[j].size = c.rams[j].size
  BY <1>1, <1>4, <1>5, <1>6
<1>9. m.threads = [i \in 1 .. Len(c.threads) |-> add_cpu_thread(cm, c.threads[i])]
  BY <1>1, <1>2, <1>6
<1>. QED
  BY <1>1, <1>2, <1>3, <1>6, <1>7, <1>8, <1>9 DEF cm

\* parse() restores the child from its message, if its dataspaces are where the
\* message says they are.
LEMMA ChildIsParsed ==
  ASSUME NEW c \in ChildInfos, NEW m, IsMessageOf(m, c), NEW wild,
         \A j \in DOMAIN c.rams : /\ m.rams[j].offset \in DOMAIN memory
                                  /\ memory[m.rams[j].offset] = c.rams[j].content
  PROVE  IsChild(parse_child_info(m, wild), c)
<1> DEFINE cm == capability_mapping(c.slots)
           p == parse_child_info(m, wild)
           threads == [i \in 1 .. Len(c.threads) |-> parse_cpu_thread(add_cpu_thread(cm, c.threads[i]))]
           maps == [i \in 1 .. Len(c.maps) |-> parse_region_map(add_region_map(cm, c.maps[i]))]
           rams == [j \in 1 .. Len(c.rams) |-> parse_ram_dataspace(m.rams[j])]
<1>1. /\ m.sessions = [s \in DOMAIN c.sessions |-> normal_info(cm, c.sessions[s])]
      /\ m.lists = [k \in Lists |-> add_records(cm, c.lists[k])]
      /\ Len(c.threads) \in Nat
      /\ m.threads = [i \in 1 .. Len(c.threads) |-> add_cpu_thread(cm, c.threads[i])]
      /\ m.areas = [a \in Areas |-> add_region_map(cm, c.areas[a])]
      /\ Len(c.maps) \in Nat
      /\ m.maps = [i \in 1 .. Len(c.maps) |-> add_region_map(cm, c.maps[i])]
      /\ Len(c.rams) \in Nat
      /\ m.rams = [j \in 1 .. Len(c.rams) |-> m.rams[j]]
      /\ \A j \in 1 .. Len(c.rams) : /\ m.rams[j].info = normal_info(cm, c.rams[j].badge)
                                     /\ m.rams[j].size = c.rams[j].size
  BY MessageHasParts
<1>2. /\ p.sessions = parse_sessions(m)
      /\ p.lists = [k \in Lists |-> parse_records(m.lists[k])]
      /\ p.threads = parse_list([i \in DOMAIN m.threads |-> parse_cpu_thread(m.threads[i])])
      /\ p.areas = [a \in Areas |-> parse_region_map(m.areas[a])]
      /\ p.maps = parse_list([i \in DOMAIN m.maps |-> parse_region_map(m.maps[i])])
      /\ p.rams = parse_list([j \in DOMAIN m.rams |-> parse_ram_dataspace(m.rams[j])])
  BY DEF parse_child_info
<1>. HIDE DEF p, cm
<1>3. /\ DOMAIN p.sessions = DOMAIN c.sessions
      /\ \A s \in DOMAIN c.sessions : IsRecord(p.sessions[s], c, c.sessions[s])
  <2>1. p.sessions = [s \in DOMAIN c.sessions |-> parse_normal_info(normal_info(cm, c.sessions[s]))]
    <3>1. parse_sessions(m) = [s \in DOMAIN m.sessions |-> parse_normal_info(m.sessions[s])]
      BY DEF parse_sessions
    <3>2. /\ DOMAIN m.sessions = DOMAIN c.sessions
          /\ \A s \in DOMAIN c.sessions : m.sessions[s] = normal_info(cm, c.sessions[s])
      BY <1>1
    <3>. QED
      BY <1>2, <3>1, <3>2
  <2>2. \A s \in DOMAIN c.sessions :
          IsRecord(parse_normal_info(normal_info(cm, c.sessions[s])), c, c.sessions[s])
    BY FieldsOfChild, RecordIsParsed DEF cm
  <2>. QED
    BY <2>1, <2>2
<1>4. \A k \in Lists : AreRecords(p.lists[k], c, c.lists[k])
  <2>1. \A k \in Lists : p.lists[k] = parse_records(add_records(cm, c.lists[k]))
    BY <1>1, <1>2
  <2>. QED
    BY <2>1, FieldsOfChild, RecordsAreParsed DEF cm
<1>5. \A a \in Areas : IsMap(p.areas[a], c, c.areas[a])
  <2>1. \A a \in Areas : p.areas[a] = parse_region_map(add_region_map(cm, c.areas[a]))
    BY <1>1, <1>2
  <2>. QED
    BY <2>1, FieldsOfChild, MapIsParsed DEF cm
<1>6. /\ Len(p.threads) = Len(c.threads)
      /\ \A i \in DOMAIN p.threads : IsThread(p.threads[i], c, c.threads[i])
  <2>0. /\ DOMAIN m.threads = 1 .. Len(c.threads)
        /\ \A i \in 1 .. Len(c.threads) : m.threads[i] = add_cpu_thread(cm, c.threads[i])
    BY <1>1
  <2>1. p.threads = parse_list(threads)
    <3>1. [i \in DOMAIN m.threads |-> parse_cpu_thread(m.threads[i])] = threads
      BY <2>0
    <3>. HIDE DEF threads
    <3>. QED
      BY <1>2, <3>1
  <2>2. threads = [i \in 1 .. Len(c.threads) |-> threads[i]]
    OBVIOUS
  <2>3. \A i \in 1 .. Len(c.threads) : IsThread(threads[i], c, c.threads[i])
    <3>1. \A i \in 1 .. Len(c.threads) : c.threads[i] \in ThreadInfos
      BY FieldsOfChild, ElementOfSeq
    <3>. QED
      BY <3>1, ThreadIsParsed DEF cm
  <2>. HIDE DEF threads
  <2>4. /\ Len(p.threads) = Len(c.threads) /\ DOMAIN p.threads = 1 .. Len(c.threads)
        /\ \A i \in 1 .. Len(c.threads) : p.threads[i] = threads[i]
    <3>1. Len(c.threads) \in Nat
      BY <1>1
    <3>. QED
      BY <2>1, <2>2, <3>1, OrderIsKept
  <2>. QED
    BY <2>3, <2>4
<1>7. Len(p.maps) = Len(c.maps) /\ \A i \in DOMAIN p.maps : IsMap(p.maps[i], c, c.maps[i])
  <2>0. /\ DOMAIN m.maps = 1 .. Len(c.maps)
        /\ \A i \in 1 .. Len(c.maps) : m.maps[i] = add_region_map(cm, c.maps[i])
    BY <1>1
  <2>1. p.maps = parse_list(maps)
    <3>1. [i \in DOMAIN m.maps |-> parse_region_map(m.maps[i])] = maps
      BY <2>0
    <3>. HIDE DEF maps
    <3>. QED
      BY <1>2, <3>1
  <2>2. maps = [i \in 1 .. Len(c.maps) |-> maps[i]]
    OBVIOUS
  <2>3. \A i \in 1 .. Len(c.maps) : IsMap(maps[i], c, c.maps[i])
    <3>1. \A i \in 1 .. Len(c.maps) : c.maps[i] \in RegionMaps
      BY FieldsOfChild, ElementOfSeq
    <3>. QED
      BY <3>1, MapIsParsed DEF cm
  <2>. HIDE DEF maps
  <2>4. /\ Len(p.maps) = Len(c.maps) /\ DOMAIN p.maps = 1 .. Len(c.maps)
        /\ \A i \in 1 .. Len(c.maps) : p.maps[i] = maps[i]
    <3>1. Len(c.maps) \in Nat
      BY <1>1
    <3>. QED
      BY <2>1, <2>2, <3>1, OrderIsKept
  <2>. QED
    BY <2>3, <2>4
<1>8. /\ Len(p.rams) = Len(c.rams)
      /\ \A j \in DOMAIN p.rams : /\ IsRecord(p.rams[j].info, c, c.rams[j].badge)
                                  /\ p.rams[j].size = c.rams[j].size
                                  /\ p.rams[j].content = c.rams[j].content
  <2>1. p.rams = parse_list(rams)
    <3>1. DOMAIN m.rams = 1 .. Len(c.rams)
      BY <1>1
    <3>. QED
      BY <1>2, <3>1
  <2>2. rams = [j \in 1 .. Len(c.rams) |-> rams[j]]
    OBVIOUS
  <2>3. ASSUME NEW j \in 1 .. Len(c.rams)
        PROVE  /\ IsRecord(rams[j].info, c, c.rams[j].badge)
               /\ rams[j].size = c.rams[j].size
               /\ rams[j].content = c.rams[j].content
    <3>1. c.rams \in Seq(Dataspaces) /\ DOMAIN c.rams = 1 .. Len(c.rams)
      BY FieldsOfChild, LenProperties
    <3>2. c.rams[j].badge \in Badges
      <4>1. c.rams[j] \in Dataspaces
        BY <3>1, ElementOfSeq
      <4>. QED
        BY <4>1 DEF Dataspaces
    <3>3. /\ rams[j].info = parse_normal_info(m.rams[j].info)
          /\ rams[j].size = m.rams[j].size
          /\ rams[j].content = IF m.rams[j].offset \in DOMAIN memory
                               THEN memory[m.rams[j].offset] ELSE "other"
      BY DEF parse_ram_dataspace
    <3>. HIDE DEF rams
    <3>4. IsRecord(rams[j].info, c, c.rams[j].badge)
      <4>1. rams[j].info = parse_normal_info(normal_info(cm, c.rams[j].badge))
        BY <1>1, <3>3
      <4>. QED
        BY <3>2, <4>1, RecordIsParsed DEF cm
    <3>. QED
      BY <1>1, <3>1, <3>3, <3>4
  <2>. HIDE DEF rams
  <2>4. /\ Len(p.rams) = Len(c.rams) /\ DOMAIN p.rams = 1 .. Len(c.rams)
        /\ \A j \in 1 .. Len(c.rams) : p.rams[j] = rams[j]
    <3>1. Len(c.rams) \in Nat
      BY <1>1
    <3>. QED
      BY <2>1, <2>2, <3>1, OrderIsKept
  <2>. QED
    BY <2>3, <2>4
<1>. QED
  BY <1>3, <1>4, <1>5, <1>6, <1>7, <1>8 DEF IsChild, p

-----------------------------------------------------------------------------
(* The size of the message and the attachments of a child.                     *)

\* The sets that the sums range over are finite.
LEMMA ThreeAreFinite ==
  ASSUME NEW x, NEW y, NEW z
  PROVE  IsFiniteSet({x, y, z})
<1>1. IsFiniteSet({x})
  BY FS_Singleton
<1>2. IsFiniteSet({x} \cup {y})
  BY <1>1, FS_AddElement
<1>3. IsFiniteSet(({x} \cup {y}) \cup {z})
  BY <1>2, FS_AddElement
<1>4. {x, y, z} = ({x} \cup {y}) \cup {z}
  OBVIOUS
<1>. QED
  BY <1>3, <1>4

\* The sizes are natural numbers.
LEMMA ChildBytesAreNat ==
  ASSUME NEW c \in ChildInfos, NEW m, IsMessageOf(m, c)
  PROVE  ChildBytes(m) \in Nat
<1> DEFINE cm == capability_mapping(c.slots)
           lists == [k \in Lists |-> Len(m.lists[k])]
           areas == [a \in Areas |-> Records(m.areas[a])]
           maps == [i \in DOMAIN m.maps |-> Records(m.maps[i])]
           rams == [j \in DOMAIN m.rams |-> OffsetBytes(m.rams[j].offset)]
<1>1. /\ m.sessions = [s \in DOMAIN c.sessions |-> normal_info(cm, c.sessions[s])]
      /\ m.lists = [k \in Lists |-> add_records(cm, c.lists[k])]
      /\ Len(c.threads) \in Nat
      /\ m.threads = [i \in 1 .. Len(c.threads) |-> add_cpu_thread(cm, c.threads[i])]
      /\ m.areas = [a \in Areas |-> add_region_map(cm, c.areas[a])]
      /\ Len(c.maps) \in Nat
      /\ m.maps = [i \in 1 .. Len(c.maps) |-> add_region_map(cm, c.maps[i])]
      /\ Len(c.rams) \in Nat
      /\ m.rams = [j \in 1 .. Len(c.rams) |-> m.rams[j]]
  BY MessageHasParts
<1>. HIDE DEF cm
<1>2. Cardinality(DOMAIN m.sessions) \in Nat
  <2>1. DOMAIN m.sessions \subseteq {"pd", "cpu", "timer"} \cup {"log", "rm", "rom"}
    <3>1. DOMAIN m.sessions = DOMAIN c.sessions
      BY <1>1
    <3>2. DOMAIN c.sessions \subseteq {"pd", "cpu", "timer", "log", "rm", "rom"}
      BY FieldsOfChild
    <3>. QED
      BY <3>1, <3>2
  <2>2. IsFiniteSet({"pd", "cpu", "timer"} \cup {"log", "rm", "rom"})
    BY ThreeAreFinite, FS_Union
  <2>. QED
    BY <2>1, <2>2, FS_Subset, FS_CardinalityType
<1>3. ASSUME NEW map \in RegionMaps
      PROVE  Records(add_region_map(cm, map)) \in Nat
  <2> DEFINE rs == add_region_map(cm, map).regions
  <2>1. Len(map.regions) \in Nat /\ DOMAIN map.regions = 1 .. Len(map.regions)
    BY LenProperties DEF RegionMaps
  <2>2. rs = [i \in 1 .. Len(map.regions) |-> rs[i]]
    BY <2>1 DEF add_region_map
  <2>. HIDE DEF rs
  <2>3. Len(rs) \in Nat
    BY <2>1, <2>2, FunctionIsSequence
  <2>. QED
    BY <2>3 DEF Records, rs
<1>4. SumOf(Len, m.lists) \in Nat
  <2>1. \A k \in Lists : Len(m.lists[k]) \in Nat
    <3>. SUFFICES ASSUME NEW k \in Lists PROVE Len(m.lists[k]) \in Nat
      OBVIOUS
    <3> DEFINE rs == add_records(cm, c.lists[k])
    <3>1. c.lists[k] \in Seq(Badges)
      BY FieldsOfChild
    <3>2. Len(c.lists[k]) \in Nat /\ DOMAIN c.lists[k] = 1 .. Len(c.lists[k])
      BY <3>1, LenProperties
    <3>3. rs = [i \in 1 .. Len(c.lists[k]) |-> rs[i]]
      BY <3>2 DEF add_records
    <3>4. m.lists[k] = rs
      BY <1>1
    <3>. HIDE DEF rs
    <3>5. Len(rs) \in Nat
      BY <3>2, <3>3, FunctionIsSequence
    <3>. QED
      BY <3>4, <3>5
  <2>2. DOMAIN m.lists = Lists
    BY <1>1
  <2>3. IsFiniteSet(Lists)
    BY ThreeAreFinite DEF Lists
  <2>4. SumOf(Len, m.lists) = SumFunction(lists)
    BY <2>2 DEF SumOf
  <2>5. DOMAIN lists = Lists /\ \A k \in Lists : lists[k] \in Nat
    BY <2>1
  <2>. HIDE DEF lists
  <2>. QED
    BY <2>3, <2>4, <2>5, SumIsNat
<1>5. SumOf(Records, m.areas) \in Nat
  <2>1. \A a \in Areas : Records(m.areas[a]) \in Nat
    BY <1>1, <1>3, FieldsOfChild
  <2>2. DOMAIN m.areas = Areas
    BY <1>1
  <2>3. IsFiniteSet(Areas)
    BY ThreeAreFinite DEF Areas
  <2>4. SumOf(Records, m.areas) = SumFunction(areas)
    BY <2>2 DEF SumOf
  <2>5. DOMAIN areas = Areas /\ \A a \in Areas : areas[a] \in Nat
    BY <2>1
  <2>. HIDE DEF areas
  <2>. QED
    BY <2>3, <2>4, <2>5, SumIsNat
<1>6. SumOf(Records, m.maps) \in Nat
  <2>1. DOMAIN m.maps = 1 .. Len(c.maps) /\ IsFiniteSet(1 .. Len(c.maps))
    BY <1>1, FS_Interval
  <2>2. \A i \in 1 .. Len(c.maps) : Records(m.maps[i]) \in Nat
    <3>1. \A i \in 1 .. Len(c.maps) : c.maps[i] \in RegionMaps
      BY FieldsOfChild, ElementOfSeq
    <3>. QED
      BY <1>1, <1>3, <3>1
  <2>3. SumOf(Records, m.maps) = SumFunction(maps)
    BY DEF SumOf
  <2>4. DOMAIN maps = 1 .. Len(c.maps) /\ \A i \in DOMAIN maps : maps[i] \in Nat
    BY <2>1, <2>2
  <2>. HIDE DEF maps
  <2>. QED
    BY <2>1, <2>3, <2>4, SumIsNat
<1>7. SumOf(LAMBDA r : OffsetBytes(r.offset), m.rams) \in Nat
  <2>1. DOMAIN m.rams = 1 .. Len(c.rams) /\ IsFiniteSet(1 .. Len(c.rams))
    BY <1>1, FS_Interval
  <2>2. \A j \in DOMAIN m.rams : OffsetBytes(m.rams[j].offset) \in Nat
    BY SerializerAssumption DEF OffsetBytes
  <2>3. SumOf(LAMBDA r : OffsetBytes(r.offset), m.rams) = SumFunction(rams)
    BY DEF SumOf
  <2>4. DOMAIN rams = 1 .. Len(c.rams) /\ \A j \in DOMAIN rams : rams[j] \in Nat
    BY <2>1, <2>2
  <2>. HIDE DEF rams
  <2>. QED
    BY <2>1, <2>3, <2>4, SumIsNat
<1>8. Len(m.threads) \in Nat /\ Len(m.rams) \in Nat
  <2>1. m.threads = [i \in 1 .. Len(c.threads) |-> m.threads[i]]
    BY <1>1
  <2>2. Len(m.threads) \in Nat
    BY <1>1, <2>1, FunctionIsSequence
  <2>3. Len(m.rams) \in Nat
    BY <1>1, FunctionIsSequence
  <2>. QED
    BY <2>2, <2>3
<1>9. OffsetBytes(m.binary) \in Nat /\ RecordSize \in Nat
  BY SerializerAssumption DEF OffsetBytes
<1> DEFINE named == Cardinality(DOMAIN m.sessions)
           listed == SumOf(Len, m.lists)
           inAreas == SumOf(Records, m.areas)
           inMaps == SumOf(Records, m.maps)
           offsets == SumOf(LAMBDA r : OffsetBytes(r.offset), m.rams)
           threads == Len(m.threads)
           dataspaces == Len(m.rams)
           some == named + threads + dataspaces
           n == some + listed + inAreas + inMaps
<1>10. ChildBytes(m) = RecordSize * n + offsets + OffsetBytes(m.binary)
  BY DEF ChildBytes
<1>11. /\ named \in Nat /\ listed \in Nat /\ inAreas \in Nat /\ inMaps \in Nat
       /\ offsets \in Nat
  BY <1>2, <1>4, <1>5, <1>6, <1>7
<1>. HIDE DEF named, listed, inAreas, inMaps, offsets
<1>12. n \in Nat
  <2>1. threads \in Nat /\ dataspaces \in Nat
    BY <1>8
  <2>. HIDE DEF threads, dataspaces
  <2>3. some \in Nat
    BY <1>11, <2>1
  <2>. HIDE DEF some
  <2>2. some + listed + inAreas \in Nat
    BY <1>11, <2>3
  <2>. QED
    BY <1>11, <2>2
<1>. HIDE DEF n
<1>13. RecordSize * n \in Nat
  BY <1>9, <1>12
<1>. QED
  BY <1>9, <1>10, <1>11, <1>13

LEMMA ByteSizeIsNat ==
  ASSUME NEW message, IsSequence(message), NEW cs \in Seq(ChildInfos), Len(message) <= Len(cs),
         \A i \in 1 .. Len(message) : IsMessageOf(message[i], cs[i])
  PROVE  ByteSize(message) \in Nat
<1> DEFINE f == [i \in DOMAIN message |-> ChildBytes(message[i])]
<1>1. /\ Len(message) \in Nat /\ DOMAIN message = 1 .. Len(message)
      /\ IsFiniteSet(1 .. Len(message))
  BY SequenceHasPlaces, FS_Interval
<1>2. \A i \in 1 .. Len(message) : cs[i] \in ChildInfos
  <2>1. Len(cs) \in Nat
    BY LenProperties
  <2>2. \A i \in 1 .. Len(message) : i \in 1 .. Len(cs)
    BY <1>1, <2>1
  <2>. QED
    BY <2>2, ElementOfSeq
<1>3. \A i \in 1 .. Len(message) : ChildBytes(message[i]) \in Nat
  BY <1>2, ChildBytesAreNat
<1>4. ByteSize(message) = SumFunction(f)
  BY DEF ByteSize, SumOf
<1>5. DOMAIN f = 1 .. Len(message) /\ \A i \in DOMAIN f : f[i] \in Nat
  BY <1>1, <1>3
<1>. HIDE DEF f
<1>. QED
  BY <1>1, <1>4, <1>5, SumIsNat

\* What is attached for a child.
LEMMA AttachmentsOfChild ==
  ASSUME NEW i \in Nat, NEW c \in ChildInfos
  PROVE  LET new == ram_attachments(i, c) \o binary_attachment(i)
         IN  /\ IsLayout(new)
             /\ \A k \in DOMAIN new : new[k].key.child = i
             /\ \A j \in DOMAIN c.rams : \E k \in DOMAIN new :
                  new[k].key = [child |-> i, ram |-> j] /\ new[k].content = c.rams[j].content
             /\ include_binary => \E k \in DOMAIN new :
                  new[k].key = [child |-> i, ram |-> 0] /\ new[k].content = "binary"
<1> DEFINE n == Len(c.rams)
           rams == ram_attachments(i, c)
           binary == binary_attachment(i)
           new == rams \o binary
<1>1. n \in Nat /\ DOMAIN c.rams = 1 .. n /\ \A j \in 1 .. n : c.rams[j] \in Dataspaces
  BY FieldsOfChild, LenProperties, ElementOfSeq
<1>2. /\ rams = [j \in 1 .. n |-> rams[j]]
      /\ \A j \in 1 .. n : rams[j] = [key |-> [child |-> i, ram |-> j],
                                      size |-> page_aligned_size(c.rams[j].size),
                                      content |-> c.rams[j].content]
  BY <1>1 DEF ram_attachments, Attachment
<1>. HIDE DEF rams, n
<1>3. \A j \in 1 .. n : rams[j] \in Attachments /\ Paged(rams[j].size)
  <2>. SUFFICES ASSUME NEW j \in 1 .. n PROVE rams[j] \in Attachments /\ Paged(rams[j].size)
    OBVIOUS
  <2>1. c.rams[j].size \in Nat \ {0} /\ c.rams[j].content \in Contents
    BY <1>1 DEF Dataspaces
  <2>2. Paged(page_aligned_size(c.rams[j].size)) /\ page_aligned_size(c.rams[j].size) \in Nat \ {0}
    BY <2>1, PagesAreEnough
  <2>3. j \in Nat
    BY <1>1
  <2>4. rams[j] = [key |-> [child |-> i, ram |-> j], size |-> page_aligned_size(c.rams[j].size),
                   content |-> c.rams[j].content]
    BY <1>2
  <2>5. rams[j] \in Attachments
    BY <2>1, <2>2, <2>3, <2>4 DEF Attachments
  <2>6. rams[j].size = page_aligned_size(c.rams[j].size)
    BY <2>4
  <2>. QED
    BY <2>2, <2>5, <2>6
<1>4. rams \in Seq(Attachments) /\ Len(rams) = n
  <2>1. rams \in [1 .. n -> Attachments]
    BY <1>2, <1>3
  <2>2. rams \in Seq(Attachments)
    BY <1>1, <2>1, SeqDef
  <2>. QED
    BY <1>1, <1>2, <2>2, FunctionIsSequence
<1>8. ASSUME NEW j \in 1 .. n
      PROVE  /\ rams[j].key = [child |-> i, ram |-> j] /\ rams[j].content = c.rams[j].content
             /\ rams[j].key.child = i /\ rams[j].key.ram = j
  <2>1. rams[j] = [key |-> [child |-> i, ram |-> j], size |-> page_aligned_size(c.rams[j].size),
                   content |-> c.rams[j].content]
    BY <1>2
  <2>. QED
    BY <2>1
<1> DEFINE b == [key |-> [child |-> i, ram |-> 0], size |-> BinarySize, content |-> "binary"]
<1>5. b \in Attachments /\ Paged(b.size)
  BY SerializerAssumption, BinaryIsPaged DEF Attachments
<1>6. CASE include_binary
  <2>1. binary = <<b>>
    BY <1>6 DEF binary_attachment, Attachment
  <2>. HIDE DEF binary, b
  <2>2. binary \in Seq(Attachments) /\ Len(binary) = 1 /\ binary[1] = b
    BY <1>5, <2>1
  <2>3. new \in Seq(Attachments)
    BY <1>4, <2>2, ConcatProperties
  <2>13. Len(new) = n + 1
    <3>1. Len(new) = Len(rams) + Len(binary)
      BY <1>4, <2>2, ConcatProperties
    <3>. QED
      BY <1>4, <2>2, <3>1
  <2>4. \A k \in 1 .. n + 1 : new[k] = IF k <= n THEN rams[k] ELSE binary[k - n]
    <3>1. \A k \in 1 .. Len(rams) + Len(binary) :
            new[k] = IF k <= Len(rams) THEN rams[k] ELSE binary[k - Len(rams)]
      BY <1>4, <2>2, ConcatProperties
    <3>. HIDE DEF new
    <3>. QED
      BY <1>4, <2>2, <3>1
  <2>. HIDE DEF new
  <2>5. /\ \A k \in 1 .. n : new[k] = rams[k]
        /\ new[n + 1] = b
    <3>2. \A k \in 1 .. n : k \in 1 .. n + 1 /\ k <= n
      BY <1>1
    <3>3. ASSUME NEW k, k = n + 1 PROVE new[k] = b
      <4>1. k \in 1 .. n + 1 /\ ~ (k <= n) /\ k - n = 1
        BY <1>1, <3>3
      <4>2. new[k] = binary[k - n]
        BY <2>4, <4>1
      <4>. QED
        BY <2>2, <4>1, <4>2
    <3>4. \A k \in 1 .. n : new[k] = rams[k]
      BY <2>4, <3>2
    <3>. QED
      BY <3>3, <3>4
  <2>6. DOMAIN new = 1 .. n + 1 /\ 1 .. n + 1 = (1 .. n) \cup {n + 1}
    BY <1>1, <2>3, <2>13, LenProperties
  <2>7. /\ b.key = [child |-> i, ram |-> 0] /\ b.content = "binary"
        /\ b.key.child = i /\ b.key.ram = 0
    BY DEF b
  <2>8. \A k \in 1 .. n :
          /\ new[k].key = [child |-> i, ram |-> k] /\ new[k].content = c.rams[k].content
          /\ new[k].key.child = i /\ new[k].key.ram = k
    BY <1>8, <2>5
  <2>9. ASSUME NEW k \in DOMAIN new, NEW l \in DOMAIN new, new[k].key = new[l].key PROVE k = l
    <3>1. \A p \in 1 .. n : new[p].key.ram = p
      BY <2>8
    <3>2. new[n + 1].key.ram = 0
      BY <2>5, <2>7
    <3>3. new[k].key.ram = new[l].key.ram
      BY <2>9
    <3>4. \A p \in 1 .. n : p # 0
      BY <1>1
    <3>. QED
      BY <2>6, <3>1, <3>2, <3>3, <3>4
  <2>10. \A k \in DOMAIN new : Paged(new[k].size)
    BY <1>3, <1>5, <2>5, <2>6
  <2>11. IsLayout(new)
    BY <2>3, <2>9, <2>10 DEF IsLayout
  <2>12. \A k \in DOMAIN new : new[k].key.child = i
    BY <2>5, <2>6, <2>7, <2>8
  <2>. QED
    BY <1>1, <2>5, <2>6, <2>7, <2>8, <2>11, <2>12 DEF new, binary, rams
<1>7. CASE ~ include_binary
  <2>1. binary = <<>>
    BY <1>7 DEF binary_attachment
  <2>. HIDE DEF binary
  <2>2. new = rams
    BY <1>4, <2>1, ConcatEmptySeq
  <2>3. DOMAIN rams = 1 .. n
    BY <1>4, LenProperties
  <2>. HIDE DEF new
  <2>5. ASSUME NEW k \in 1 .. n, NEW l \in 1 .. n, rams[k].key = rams[l].key PROVE k = l
    BY <1>8, <2>5
  <2>6. IsLayout(rams)
    BY <1>3, <1>4, <2>3, <2>5 DEF IsLayout
  <2>. QED
    BY <1>1, <1>7, <1>8, <2>2, <2>3, <2>6 DEF new, binary, rams
<1>. QED
  BY <1>6, <1>7

-----------------------------------------------------------------------------
(* The invariant of serialize() and parse().                                   *)

SerialPhases ==
  {"convert", "attach", "fill", "compress", "map", "deflate", "serialized", "refused",
   "abandoned", "fault", "parse", "corrupt", "parsed"}
AfterAttach ==
  {"fill", "compress", "map", "deflate", "serialized", "fault", "parse", "corrupt", "parsed"}
AfterFill == {"compress", "map", "deflate", "serialized", "parse", "parsed"}

SerialTypeOK ==
  /\ phase \in SerialPhases
  /\ childs \in Seq(ChildInfos)
  /\ include_binary \in BOOLEAN
  /\ pb_ds_size \in Nat

\* The layout has an attachment with the key and the content.
IsAttached(lay, i, j, content) ==
  \E k \in DOMAIN lay : lay[k].key = [child |-> i, ram |-> j] /\ lay[k].content = content

\* The message says what the children are, and all their memory is attached.
ConvertedInv ==
  phase \notin {"refused", "abandoned"} =>
    /\ IsLayout(attachments)
    /\ IsSequence(child_list) /\ Len(child_list) <= Len(childs)
    /\ phase # "convert" => Len(child_list) = Len(childs)
    /\ \A i \in 1 .. Len(child_list) :
         /\ IsMessageOf(child_list[i], childs[i])
         /\ \A j \in DOMAIN childs[i].rams : IsAttached(attachments, i, j, childs[i].rams[j].content)
         /\ include_binary => IsAttached(attachments, i, 0, "binary")
    /\ phase = "convert" =>
         \A k \in DOMAIN attachments : attachments[k].key.child \in 1 .. Len(child_list)
    /\ phase # "convert" => 1 \in DOMAIN attachments /\ attachments[1].key = MessageKey

\* The attachments are where the message says they are, and have their content;
\* the message itself is written over the first.
PlacedInv ==
  phase \in AfterAttach =>
    /\ DOMAIN memory = Offsets(attachments)
    /\ \A k \in DOMAIN attachments :
         k # 1 => memory[OffsetOf(attachments, k)] = attachments[k].content
    /\ \A i \in 1 .. Len(child_list) :
         /\ \A j \in DOMAIN childs[i].rams :
              child_list[i].rams[j].offset = OffsetOfKey(attachments, i, j)
         /\ include_binary => child_list[i].binary = OffsetOfKey(attachments, i, 0)

WrittenInv == phase \in AfterFill /\ Fits => memory[0] = "message"

HeaderInv ==
  /\ phase = "serialized" => total_size = size(attachments) % Word
  /\ OversizeIsRefused

ParsedInv ==
  /\ phase \in {"convert", "attach", "fill", "compress", "map", "deflate", "serialized"} =>
       parsed = <<>>
  /\ phase \in {"parse", "parsed"} /\ Fits =>
       /\ IsSequence(parsed) /\ Len(parsed) <= Len(childs)
       /\ \A i \in 1 .. Len(parsed) : IsChild(parsed[Len(parsed) + 1 - i], childs[i])
       /\ phase = "parsed" => Len(parsed) = Len(childs)

\* The dataspaces that serialize() and compress() have allocated.
HeldInv ==
  /\ phase = "convert" => held = {}
  /\ phase \in {"attach", "fill", "compress"} => held = {"message"}
  /\ phase \in {"map", "deflate"} => held = {"message", "compressed"}

SerialInv ==
  SerialTypeOK /\ ConvertedInv /\ PlacedInv /\ WrittenInv /\ HeaderInv /\ ParsedInv /\ HeldInv

\* Nothing has been converted yet.
LEMMA InitSerialInv == Init => SerialInv
<1>. SUFFICES ASSUME Init PROVE SerialInv
  OBVIOUS
<1>0. /\ childs \in ChildLists /\ include_binary \in BOOLEAN /\ phase = "convert"
      /\ child_list = <<>> /\ attachments = <<>> /\ held = {} /\ parsed = <<>>
      /\ pb_ds_size = 0
  BY DEF Init
<1>1. childs \in Seq(ChildInfos)
  BY <1>0, SerializerAssumption
<1>2. /\ Len(childs) \in Nat /\ Len(<<>>) = 0 /\ <<>> \in Seq(Attachments) /\ DOMAIN <<>> = {}
      /\ 1 .. 0 = {}
  BY <1>1, LenProperties, EmptySeq
<1>3. SerialTypeOK
  BY <1>0, <1>1 DEF SerialTypeOK, SerialPhases
<1>4. ConvertedInv
  <2>1. IsLayout(attachments)
    BY <1>0, <1>2 DEF IsLayout
  <2>2. IsSequence(child_list) /\ Len(child_list) = 0 /\ DOMAIN attachments = {}
    BY <1>0, <1>2 DEF IsSequence
  <2>. QED
    BY <1>0, <1>2, <2>1, <2>2 DEF ConvertedInv
<1>5. PlacedInv /\ WrittenInv
  BY <1>0 DEF PlacedInv, WrittenInv, AfterAttach, AfterFill
<1>6. HeaderInv /\ ParsedInv /\ HeldInv
  BY <1>0 DEF HeaderInv, OversizeIsRefused, ParsedInv, HeldInv
<1>. QED
  BY <1>3, <1>4, <1>5, <1>6 DEF SerialInv

\* The next child is converted.
LEMMA ConvertKeepsSerialInv ==
  ASSUME SerialInv, add_child_info
  PROVE  SerialInv'
<1> DEFINE n == Len(child_list)
           i == n + 1
           c == childs[i]
           new == ram_attachments(i, c) \o binary_attachment(i)
           r == Inserted(new, attachments)
<1>0. /\ phase = "convert" /\ phase' = phase /\ n < Len(childs)
      /\ child_list' = Append(child_list, child_message(c)) /\ attachments' = r
      /\ childs' = childs /\ include_binary' = include_binary /\ pb_ds_size' = pb_ds_size
      /\ parsed' = parsed /\ held' = held
  BY DEF add_child_info
<1>1. SerialTypeOK /\ ConvertedInv /\ ParsedInv /\ HeldInv
  BY DEF SerialInv
<1>2. Len(childs) \in Nat /\ \A k \in 1 .. Len(childs) : childs[k] \in ChildInfos
  BY <1>1, LenProperties, ElementOfSeq DEF SerialTypeOK
<1>3. IsLayout(attachments) /\ IsSequence(child_list)
  BY <1>0, <1>1 DEF ConvertedInv
<1>4. n \in Nat /\ i \in Nat \ {0} /\ i \in 1 .. Len(childs) /\ i <= Len(childs)
  <2>1. n \in Nat
    BY <1>3, SequenceHasPlaces
  <2>. QED
    BY <1>0, <1>2, <2>1
<1>5. c \in ChildInfos
  BY <1>2, <1>4
<1>. HIDE DEF n, c, r
<1>6. /\ IsSequence(child_list') /\ Len(child_list') = i
      /\ \A k \in 1 .. n : child_list'[k] = child_list[k]
      /\ child_list'[i] = child_message(c)
  <2>1. PICK S : child_list \in Seq(S)
    BY <1>3 DEF IsSequence
  <2> DEFINE T == S \cup {child_message(c)}
  <2>2. child_list \in Seq(T) /\ child_message(c) \in T
    BY <2>1, SeqMonotonic
  <2>. HIDE DEF T
  <2>. QED
    BY <1>0, <2>2, AppendProperties DEF IsSequence, n
<1>7. /\ IsLayout(new)
      /\ \A k \in DOMAIN new : new[k].key.child = i
      /\ \A j \in DOMAIN c.rams : \E k \in DOMAIN new :
           new[k].key = [child |-> i, ram |-> j] /\ new[k].content = c.rams[j].content
      /\ include_binary => \E k \in DOMAIN new :
           new[k].key = [child |-> i, ram |-> 0] /\ new[k].content = "binary"
  BY <1>4, <1>5, AttachmentsOfChild
<1>. HIDE DEF new
<1>8. \A k \in DOMAIN attachments : attachments[k].key.child \in 1 .. n
  BY <1>0, <1>1 DEF ConvertedInv, n
<1>9. /\ IsLayout(r)
      /\ \A k \in DOMAIN new : \E l \in DOMAIN r : r[l] = new[k]
      /\ \A k \in DOMAIN attachments : \E l \in DOMAIN r : r[l] = attachments[k]
      /\ \A l \in DOMAIN r : \/ \E k \in DOMAIN new : r[l] = new[k]
                             \/ \E k \in DOMAIN attachments : r[l] = attachments[k]
  <2>1. \A k \in DOMAIN new : \A l \in DOMAIN attachments : new[k].key # attachments[l].key
    <3>1. i \notin 1 .. n
      BY <1>4
    <3>. QED
      BY <1>7, <1>8, <3>1
  <2>. QED
    BY <1>3, <1>7, <2>1, LayoutExtends DEF r
<1>10. \A k \in DOMAIN r : r[k].key.child \in 1 .. i
  <2>1. i \in 1 .. i /\ \A p \in 1 .. n : p \in 1 .. i
    BY <1>4
  <2>. QED
    BY <1>7, <1>8, <1>9, <2>1
<1>11. IsMessageOf(child_message(c), c)
  <2> DEFINE t == child_message(c)
  <2>1. t = [sessions |-> t.sessions, lists |-> t.lists, threads |-> t.threads,
             areas |-> t.areas, maps |-> t.maps, rams |-> t.rams, binary |-> t.binary]
    BY DEF child_message
  <2>2. t.rams = [j \in DOMAIN t.rams |->
                    [info |-> t.rams[j].info, size |-> t.rams[j].size,
                     offset |-> t.rams[j].offset]]
    BY DEF child_message, add_ram_dataspace
  <2>. QED
    BY <2>1, <2>2 DEF IsMessageOf
<1>12. ASSUME NEW k \in 1 .. i
       PROVE  /\ IsMessageOf(child_list'[k], childs'[k])
              /\ \A j \in DOMAIN childs'[k].rams :
                   \E l \in DOMAIN r : /\ r[l].key = [child |-> k, ram |-> j]
                                       /\ r[l].content = childs'[k].rams[j].content
              /\ include_binary' =>
                   \E l \in DOMAIN r : /\ r[l].key = [child |-> k, ram |-> 0]
                                       /\ r[l].content = "binary"
  <2>1. CASE k = i
    <3>1. child_list'[k] = child_message(c) /\ childs'[k] = c
      BY <1>0, <1>6, <2>1 DEF c
    <3>2. \A j \in DOMAIN c.rams : \E l \in DOMAIN r :
            r[l].key = [child |-> i, ram |-> j] /\ r[l].content = c.rams[j].content
      BY <1>7, <1>9
    <3>3. include_binary => \E l \in DOMAIN r :
            r[l].key = [child |-> i, ram |-> 0] /\ r[l].content = "binary"
      BY <1>7, <1>9
    <3>. QED
      BY <1>0, <1>11, <2>1, <3>1, <3>2, <3>3
  <2>2. CASE k # i
    <3>1. k \in 1 .. n
      BY <1>4, <2>2
    <3>2. /\ IsMessageOf(child_list[k], childs[k])
          /\ \A j \in DOMAIN childs[k].rams : IsAttached(attachments, k, j, childs[k].rams[j].content)
          /\ include_binary => IsAttached(attachments, k, 0, "binary")
      BY <1>0, <1>1, <3>1 DEF ConvertedInv, n
    <3>3. child_list'[k] = child_list[k] /\ childs'[k] = childs[k]
      BY <1>0, <1>6, <3>1
    <3>4. ASSUME NEW j, NEW content, IsAttached(attachments, k, j, content)
          PROVE  \E l \in DOMAIN r : r[l].key = [child |-> k, ram |-> j] /\ r[l].content = content
      <4>1. PICK p \in DOMAIN attachments :
              attachments[p].key = [child |-> k, ram |-> j] /\ attachments[p].content = content
        BY <3>4 DEF IsAttached
      <4>2. PICK l \in DOMAIN r : r[l] = attachments[p]
        BY <1>9
      <4>. QED
        BY <4>1, <4>2
    <3>. QED
      BY <1>0, <3>2, <3>3, <3>4
  <2>. QED
    BY <2>1, <2>2
<1>13. ConvertedInv'
  BY <1>0, <1>4, <1>6, <1>9, <1>10, <1>12 DEF ConvertedInv, IsAttached
<1>14. SerialTypeOK'
  BY <1>0, <1>1 DEF SerialTypeOK
<1>15. PlacedInv' /\ WrittenInv'
  BY <1>0 DEF PlacedInv, WrittenInv, AfterAttach, AfterFill
<1>16. HeaderInv' /\ ParsedInv' /\ HeldInv'
  BY <1>0, <1>1 DEF HeaderInv, OversizeIsRefused, ParsedInv, HeldInv
<1>. QED
  BY <1>13, <1>14, <1>15, <1>16 DEF SerialInv

\* The dataspace of the message goes to the head.
LEMMA CreateKeepsSerialInv ==
  ASSUME SerialInv, create_dataspace
  PROVE  SerialInv'
<1> DEFINE sz == page_aligned_size(ByteSize(child_list) + HeaderSize)
           a == Attachment(0, 0, sz, "zeros")
           new == <<a>>
           r == Inserted(new, attachments)
<1>0. /\ phase = "convert" /\ phase' = "attach" /\ Len(child_list) = Len(childs)
      /\ pb_ds_size' = sz /\ attachments' = r /\ held' = held \cup {"message"}
      /\ childs' = childs /\ include_binary' = include_binary /\ child_list' = child_list
      /\ parsed' = parsed
  BY DEF create_dataspace
<1>1. SerialTypeOK /\ ConvertedInv /\ ParsedInv /\ HeldInv
  BY DEF SerialInv
<1>2. /\ IsLayout(attachments) /\ IsSequence(child_list) /\ Len(child_list) <= Len(childs)
      /\ \A k \in DOMAIN attachments : attachments[k].key.child \in 1 .. Len(child_list)
      /\ \A i \in 1 .. Len(child_list) : IsMessageOf(child_list[i], childs[i])
  BY <1>0, <1>1 DEF ConvertedInv
<1>3. sz \in Nat \ {0} /\ Paged(sz)
  <2>1. childs \in Seq(ChildInfos)
    BY <1>1 DEF SerialTypeOK
  <2>2. ByteSize(child_list) \in Nat
    BY <1>2, <2>1, ByteSizeIsNat
  <2>3. ByteSize(child_list) + HeaderSize \in Nat \ {0}
    BY <2>2 DEF HeaderSize
  <2>. QED
    BY <2>3, PagesAreEnough
<1>. HIDE DEF sz
<1>4. a \in Attachments /\ a.key = MessageKey /\ a.key.child = 0 /\ a.size = sz
  <2>1. a = [key |-> [child |-> 0, ram |-> 0], size |-> sz, content |-> "zeros"]
    BY DEF Attachment
  <2>. HIDE DEF a
  <2>2. a \in Attachments
    BY <1>3, <2>1 DEF Attachments
  <2>. QED
    BY <2>1, <2>2 DEF MessageKey
<1>. HIDE DEF a
<1>5. IsLayout(new) /\ Len(new) = 1 /\ DOMAIN new = {1} /\ new[1] = a
  <2>1. new \in Seq(Attachments) /\ Len(new) = 1 /\ DOMAIN new = {1} /\ new[1] = a
    BY <1>4
  <2>. HIDE DEF new
  <2>. QED
    BY <1>3, <1>4, <2>1 DEF IsLayout
<1>. HIDE DEF new, r
<1>6. /\ IsLayout(r)
      /\ r[1] = a
      /\ \A k \in DOMAIN new : \E l \in DOMAIN r : r[l] = new[k]
      /\ \A k \in DOMAIN attachments : \E l \in DOMAIN r : r[l] = attachments[k]
  <2>1. \A k \in DOMAIN new : \A l \in DOMAIN attachments : new[k].key # attachments[l].key
    <3>1. 0 \notin 1 .. Len(child_list)
      OBVIOUS
    <3>. QED
      BY <1>2, <1>4, <1>5, <3>1
  <2>2. Len(new) > 0
    BY <1>5
  <2>3. /\ IsLayout(r)
        /\ Len(new) > 0 => r[1] = new[Len(new)]
        /\ \A k \in DOMAIN new : \E l \in DOMAIN r : r[l] = new[k]
        /\ \A k \in DOMAIN attachments : \E l \in DOMAIN r : r[l] = attachments[k]
    BY <1>2, <1>5, <2>1, LayoutExtends DEF r
  <2>. QED
    BY <1>5, <2>2, <2>3
<1>7. 1 \in DOMAIN r
  <2>1. PICK l \in DOMAIN r : r[l] = new[1]
    BY <1>5, <1>6
  <2>2. Len(r) \in Nat /\ DOMAIN r = 1 .. Len(r)
    BY <1>6, LayoutHasPlaces
  <2>. QED
    BY <2>1, <2>2
<1>8. ASSUME NEW i, NEW j, NEW content, IsAttached(attachments, i, j, content)
      PROVE  \E l \in DOMAIN r : r[l].key = [child |-> i, ram |-> j] /\ r[l].content = content
  <2>1. PICK p \in DOMAIN attachments :
          attachments[p].key = [child |-> i, ram |-> j] /\ attachments[p].content = content
    BY <1>8 DEF IsAttached
  <2>2. PICK l \in DOMAIN r : r[l] = attachments[p]
    BY <1>6
  <2>. QED
    BY <2>1, <2>2
<1>9. ASSUME NEW i \in 1 .. Len(child_list)
      PROVE  /\ IsMessageOf(child_list[i], childs[i])
             /\ \A j \in DOMAIN childs[i].rams :
                  \E l \in DOMAIN r : /\ r[l].key = [child |-> i, ram |-> j]
                                      /\ r[l].content = childs[i].rams[j].content
             /\ include_binary =>
                  \E l \in DOMAIN r : r[l].key = [child |-> i, ram |-> 0] /\ r[l].content = "binary"
  <2>1. /\ \A j \in DOMAIN childs[i].rams : IsAttached(attachments, i, j, childs[i].rams[j].content)
        /\ include_binary => IsAttached(attachments, i, 0, "binary")
    BY <1>0, <1>1 DEF ConvertedInv
  <2>. QED
    BY <1>2, <1>8, <2>1
<1>10. ConvertedInv'
  BY <1>0, <1>2, <1>4, <1>6, <1>7, <1>9 DEF ConvertedInv, IsAttached
<1>11. SerialTypeOK'
  BY <1>0, <1>1, <1>3 DEF SerialTypeOK, SerialPhases
<1>12. PlacedInv' /\ WrittenInv'
  BY <1>0 DEF PlacedInv, WrittenInv, AfterAttach, AfterFill
<1>13. HeaderInv' /\ ParsedInv' /\ HeldInv'
  BY <1>0, <1>1 DEF HeaderInv, OversizeIsRefused, ParsedInv, HeldInv
<1>. QED
  BY <1>10, <1>11, <1>12, <1>13 DEF SerialInv

\* Every dataspace gets its place, and the message is told.
LEMMA AttachKeepsSerialInv ==
  ASSUME SerialInv, attach
  PROVE  SerialInv'
<1> DEFINE n == Len(child_list)
<1>0. /\ phase = "attach" /\ phase' = "fill"
      /\ memory' = Placed(attachments)
      /\ child_list' =
           [i \in DOMAIN child_list |->
              [child_list[i] EXCEPT
                 !.rams = [j \in DOMAIN @ |->
                             [@[j] EXCEPT !.offset = OffsetOfKey(attachments, i, j)]],
                 !.binary = IF include_binary THEN OffsetOfKey(attachments, i, 0) ELSE 0]]
      /\ childs' = childs /\ include_binary' = include_binary /\ attachments' = attachments
      /\ pb_ds_size' = pb_ds_size /\ parsed' = parsed /\ held' = held
  BY DEF attach
<1>1. SerialTypeOK /\ ConvertedInv /\ ParsedInv /\ HeldInv
  BY DEF SerialInv
<1>2. /\ IsLayout(attachments) /\ IsSequence(child_list) /\ n = Len(childs)
      /\ \A i \in 1 .. n :
           /\ IsMessageOf(child_list[i], childs[i])
           /\ \A j \in DOMAIN childs[i].rams : IsAttached(attachments, i, j, childs[i].rams[j].content)
           /\ include_binary => IsAttached(attachments, i, 0, "binary")
      /\ 1 \in DOMAIN attachments /\ attachments[1].key = MessageKey
  BY <1>0, <1>1 DEF ConvertedInv
<1>3. n \in Nat /\ DOMAIN child_list = 1 .. n
  BY <1>2, SequenceHasPlaces
<1>. HIDE DEF n
<1>4. IsSequence(child_list') /\ Len(child_list') = n /\ DOMAIN child_list' = 1 .. n
  <2>1. child_list' = [i \in 1 .. n |-> child_list'[i]]
    BY <1>0, <1>3
  <2>. QED
    BY <1>3, <2>1, FunctionIsSequence
<1>5. ASSUME NEW i \in 1 .. n
      PROVE  /\ IsMessageOf(child_list'[i], childs[i])
             /\ \A j \in DOMAIN childs[i].rams :
                  child_list'[i].rams[j].offset = OffsetOfKey(attachments, i, j)
             /\ include_binary => child_list'[i].binary = OffsetOfKey(attachments, i, 0)
  <2> DEFINE m == child_list[i]
             c == childs[i]
             m1 == child_list'[i]
             t == child_message(c)
             b == IF include_binary THEN OffsetOfKey(attachments, i, 0) ELSE 0
             rams == [j \in DOMAIN m.rams |->
                        [m.rams[j] EXCEPT !.offset = OffsetOfKey(attachments, i, j)]]
  <2>1. m1 = [m EXCEPT !.rams = rams, !.binary = b]
    BY <1>0, <1>3
  <2>2. m = [sessions |-> t.sessions, lists |-> t.lists, threads |-> t.threads,
             areas |-> t.areas, maps |-> t.maps, rams |-> m.rams, binary |-> m.binary]
    BY <1>2 DEF IsMessageOf
  <2>3. m.rams = [j \in DOMAIN t.rams |->
                    [info |-> t.rams[j].info, size |-> t.rams[j].size,
                     offset |-> m.rams[j].offset]]
    BY <1>2 DEF IsMessageOf
  <2>. HIDE DEF t
  <2>4. rams = [j \in DOMAIN t.rams |->
                  [info |-> t.rams[j].info, size |-> t.rams[j].size,
                   offset |-> OffsetOfKey(attachments, i, j)]]
    <3>1. DOMAIN m.rams = DOMAIN t.rams
      BY <2>3
    <3>2. ASSUME NEW j \in DOMAIN t.rams
          PROVE  [m.rams[j] EXCEPT !.offset = OffsetOfKey(attachments, i, j)]
                 = [info |-> t.rams[j].info, size |-> t.rams[j].size,
                    offset |-> OffsetOfKey(attachments, i, j)]
      <4>1. m.rams[j] = [info |-> t.rams[j].info, size |-> t.rams[j].size,
                         offset |-> m.rams[j].offset]
        BY <2>3
      <4>. HIDE DEF m
      <4>. QED
        BY <4>1
    <3>. QED
      BY <3>1, <3>2
  <2>. HIDE DEF rams, b
  <2>5. m1 = [sessions |-> t.sessions, lists |-> t.lists, threads |-> t.threads,
              areas |-> t.areas, maps |-> t.maps, rams |-> rams, binary |-> b]
    <3> DEFINE f1 == m.rams
               g1 == m.binary
    <3>1. m = [sessions |-> t.sessions, lists |-> t.lists, threads |-> t.threads,
               areas |-> t.areas, maps |-> t.maps, rams |-> f1, binary |-> g1]
      BY <2>2
    <3>. HIDE DEF f1, g1, m, m1
    <3>. QED
      BY <2>1, <3>1
  <2>. HIDE DEF m, m1
  <2>6. m1.rams = rams /\ m1.binary = b
    BY <2>5
  <2>7. \A j \in DOMAIN t.rams : rams[j].offset = OffsetOfKey(attachments, i, j)
    BY <2>4
  <2>8. IsMessageOf(m1, c)
    <3>1. m1.rams = [j \in DOMAIN t.rams |->
                       [info |-> t.rams[j].info, size |-> t.rams[j].size,
                        offset |-> m1.rams[j].offset]]
      BY <2>4, <2>6, <2>7
    <3>2. m1 = [sessions |-> t.sessions, lists |-> t.lists, threads |-> t.threads,
                areas |-> t.areas, maps |-> t.maps, rams |-> m1.rams, binary |-> m1.binary]
      BY <2>5, <2>6
    <3>. QED
      BY <3>1, <3>2 DEF IsMessageOf, t
  <2>9. DOMAIN t.rams = DOMAIN c.rams
    BY DEF t, child_message
  <2>10. include_binary => b = OffsetOfKey(attachments, i, 0)
    BY DEF b
  <2>. QED
    BY <2>6, <2>7, <2>8, <2>9, <2>10 DEF m1
<1>6. ConvertedInv'
  <2>1. n <= Len(childs)
    BY <1>2, <1>3
  <2>2. /\ IsLayout(attachments') /\ 1 \in DOMAIN attachments' /\ attachments'[1].key = MessageKey
        /\ Len(child_list') = Len(childs') /\ Len(child_list') <= Len(childs')
    BY <1>0, <1>2, <1>4, <2>1
  <2>3. \A i \in 1 .. n :
          /\ IsMessageOf(child_list'[i], childs'[i])
          /\ \A j \in DOMAIN childs'[i].rams :
               IsAttached(attachments', i, j, childs'[i].rams[j].content)
          /\ include_binary' => IsAttached(attachments', i, 0, "binary")
    <3>1. attachments' = attachments /\ childs' = childs /\ include_binary' = include_binary
      BY <1>0
    <3>. QED
      BY <1>2, <1>5, <3>1
  <2>. QED
    BY <1>0, <1>4, <2>2, <2>3 DEF ConvertedInv
<1>7. PlacedInv'
  <2>1. /\ DOMAIN Placed(attachments) = Offsets(attachments)
        /\ \A k \in DOMAIN attachments :
             Placed(attachments)[OffsetOf(attachments, k)] = attachments[k].content
    BY <1>2, PlacedIsThere
  <2>2. /\ DOMAIN memory' = Offsets(attachments')
        /\ \A k \in DOMAIN attachments' : memory'[OffsetOf(attachments', k)] = attachments'[k].content
    BY <1>0, <2>1
  <2>3. \A i \in 1 .. Len(child_list') :
          /\ \A j \in DOMAIN childs'[i].rams :
               child_list'[i].rams[j].offset = OffsetOfKey(attachments', i, j)
          /\ include_binary' => child_list'[i].binary = OffsetOfKey(attachments', i, 0)
    <3>1. attachments' = attachments /\ childs' = childs /\ include_binary' = include_binary
      BY <1>0
    <3>. QED
      BY <1>4, <1>5, <3>1
  <2>. QED
    BY <2>2, <2>3 DEF PlacedInv
<1>8. SerialTypeOK'
  BY <1>0, <1>1 DEF SerialTypeOK, SerialPhases
<1>9. WrittenInv' /\ HeaderInv' /\ ParsedInv' /\ HeldInv'
  BY <1>0, <1>1 DEF WrittenInv, AfterFill, HeaderInv, OversizeIsRefused, ParsedInv, HeldInv
<1>. QED
  BY <1>6, <1>7, <1>8, <1>9 DEF SerialInv

\* The message and the layout stay as they are.
LEMMA ConvertedStays ==
  ASSUME ConvertedInv, phase \notin {"convert", "refused", "abandoned"}, phase' # "convert",
         UNCHANGED <<childs, include_binary, child_list, attachments>>
  PROVE  ConvertedInv'
<1>1. /\ IsLayout(attachments)
      /\ IsSequence(child_list) /\ Len(child_list) <= Len(childs) /\ Len(child_list) = Len(childs)
      /\ \A i \in 1 .. Len(child_list) :
           /\ IsMessageOf(child_list[i], childs[i])
           /\ \A j \in DOMAIN childs[i].rams :
                IsAttached(attachments, i, j, childs[i].rams[j].content)
           /\ include_binary => IsAttached(attachments, i, 0, "binary")
      /\ 1 \in DOMAIN attachments /\ attachments[1].key = MessageKey
  BY DEF ConvertedInv
<1>. QED
  BY <1>1 DEF ConvertedInv

LEMMA PlacedStays ==
  ASSUME PlacedInv, phase \in AfterAttach,
         UNCHANGED <<childs, include_binary, child_list, attachments, memory>>
  PROVE  PlacedInv'
<1>1. /\ DOMAIN memory = Offsets(attachments)
      /\ \A k \in DOMAIN attachments :
           k # 1 => memory[OffsetOf(attachments, k)] = attachments[k].content
      /\ \A i \in 1 .. Len(child_list) :
           /\ \A j \in DOMAIN childs[i].rams :
                child_list[i].rams[j].offset = OffsetOfKey(attachments, i, j)
           /\ include_binary => child_list[i].binary = OffsetOfKey(attachments, i, 0)
  BY DEF PlacedInv
<1>. QED
  BY <1>1 DEF PlacedInv

\* As long as the offsets fit, the memory is where the message says it is.
LEMMA MessageTells ==
  ASSUME SerialInv, phase \in AfterAttach, size(attachments) < Word, NEW i \in 1 .. Len(child_list)
  PROVE  /\ \A j \in DOMAIN childs[i].rams :
              /\ child_list[i].rams[j].offset \in DOMAIN memory
              /\ memory[child_list[i].rams[j].offset] = childs[i].rams[j].content
         /\ include_binary => memory[child_list[i].binary] = "binary"
<1>1. phase \notin {"convert", "refused", "abandoned"} /\ ConvertedInv /\ PlacedInv
  BY DEF AfterAttach, SerialInv
<1>2. /\ IsLayout(attachments)
      /\ \A j \in DOMAIN childs[i].rams : IsAttached(attachments, i, j, childs[i].rams[j].content)
      /\ include_binary => IsAttached(attachments, i, 0, "binary")
      /\ 1 \in DOMAIN attachments /\ attachments[1].key = MessageKey
  BY <1>1 DEF ConvertedInv
<1>3. /\ DOMAIN memory = Offsets(attachments)
      /\ \A k \in DOMAIN attachments :
           k # 1 => memory[OffsetOf(attachments, k)] = attachments[k].content
      /\ \A j \in DOMAIN childs[i].rams :
           child_list[i].rams[j].offset = OffsetOfKey(attachments, i, j)
      /\ include_binary => child_list[i].binary = OffsetOfKey(attachments, i, 0)
  BY <1>1 DEF PlacedInv
<1>4. ASSUME NEW j, NEW content, IsAttached(attachments, i, j, content)
      PROVE  /\ OffsetOfKey(attachments, i, j) \in DOMAIN memory
             /\ memory[OffsetOfKey(attachments, i, j)] = content
  <2>1. PICK k \in DOMAIN attachments :
          attachments[k].key = [child |-> i, ram |-> j] /\ attachments[k].content = content
    BY <1>4 DEF IsAttached
  <2>2. k # 1
    <3>1. attachments[k].key.child = i /\ MessageKey.child = 0
      BY <2>1 DEF MessageKey
    <3>2. i # 0
      OBVIOUS
    <3>. QED
      BY <1>2, <3>1, <3>2
  <2>3. OffsetOfKey(attachments, i, j) = OffsetOf(attachments, k)
    BY <1>2, <2>1, KeyIsFound
  <2>4. OffsetOf(attachments, k) \in Offsets(attachments)
    BY DEF Offsets
  <2>. QED
    BY <1>3, <2>1, <2>2, <2>3, <2>4
<1>. QED
  BY <1>2, <1>3, <1>4

\* The message is written over the first attachment, if there is room for it.
LEMMA FillKeepsSerialInv ==
  ASSUME SerialInv, fill
  PROVE  SerialInv'
<1>0. /\ phase = "fill" /\ pb_size' = ByteSize(child_list)
      /\ \/ /\ pb_size' + HeaderSize <= pb_ds_size
            /\ memory' = [memory EXCEPT ![0] = "message"]
            /\ phase' = "compress"
         \/ /\ pb_size' > pb_ds_size
            /\ memory' = memory
            /\ phase' = "compress"
         \/ /\ memory' = memory
            /\ phase' = "fault"
      /\ childs' = childs /\ include_binary' = include_binary /\ child_list' = child_list
      /\ attachments' = attachments /\ pb_ds_size' = pb_ds_size /\ parsed' = parsed /\ held' = held
  BY DEF fill
<1>1. SerialTypeOK /\ ConvertedInv /\ PlacedInv /\ ParsedInv /\ HeldInv
  BY DEF SerialInv
<1>2. ConvertedInv'
  BY <1>0, <1>1, ConvertedStays
<1>3. /\ IsLayout(attachments) /\ 1 \in DOMAIN attachments
      /\ IsSequence(child_list) /\ Len(child_list) <= Len(childs)
      /\ \A i \in 1 .. Len(child_list) : IsMessageOf(child_list[i], childs[i])
  BY <1>0, <1>1 DEF ConvertedInv
<1>4. /\ DOMAIN memory = Offsets(attachments)
      /\ \A k \in DOMAIN attachments :
           k # 1 => memory[OffsetOf(attachments, k)] = attachments[k].content
      /\ \A i \in 1 .. Len(child_list) :
           /\ \A j \in DOMAIN childs[i].rams :
                child_list[i].rams[j].offset = OffsetOfKey(attachments, i, j)
           /\ include_binary => child_list[i].binary = OffsetOfKey(attachments, i, 0)
  BY <1>0, <1>1 DEF PlacedInv, AfterAttach
<1>5. OffsetOf(attachments, 1) = 0 /\ 0 \in DOMAIN memory
  BY <1>3, <1>4, OffsetsAdd DEF Offsets
<1>6. \A k \in DOMAIN attachments : k # 1 => OffsetOf(attachments, k) # 0
  BY <1>3, <1>5, OffsetsAreDistinct
<1>7. /\ DOMAIN memory' = Offsets(attachments')
      /\ \A k \in DOMAIN attachments' :
           k # 1 => memory'[OffsetOf(attachments', k)] = attachments'[k].content
  <2>1. CASE memory' = memory
    BY <1>0, <1>4, <2>1
  <2>2. CASE memory' = [memory EXCEPT ![0] = "message"]
    <3>1. DOMAIN memory' = DOMAIN memory /\ \A o \in DOMAIN memory : o # 0 => memory'[o] = memory[o]
      BY <2>2
    <3>2. \A k \in DOMAIN attachments : OffsetOf(attachments, k) \in DOMAIN memory
      BY <1>4 DEF Offsets
    <3>3. attachments' = attachments
      BY <1>0
    <3>. QED
      BY <1>4, <1>6, <3>1, <3>2, <3>3
  <2>. QED
    BY <1>0, <2>1, <2>2
<1>8. \A i \in 1 .. Len(child_list') :
        /\ \A j \in DOMAIN childs'[i].rams :
             child_list'[i].rams[j].offset = OffsetOfKey(attachments', i, j)
        /\ include_binary' => child_list'[i].binary = OffsetOfKey(attachments', i, 0)
  <2>1. /\ child_list' = child_list /\ attachments' = attachments /\ childs' = childs
        /\ include_binary' = include_binary
    BY <1>0
  <2>. QED
    BY <1>4, <2>1
<1>9. PlacedInv'
  BY <1>7, <1>8 DEF PlacedInv
<1>10. WrittenInv'
  <2>1. pb_ds_size \in Nat /\ childs \in Seq(ChildInfos)
    BY <1>0, <1>1 DEF SerialTypeOK
  <2>2. pb_size' \in Nat
    BY <1>0, <1>3, <2>1, ByteSizeIsNat
  <2>3. CASE pb_size' + HeaderSize <= pb_ds_size /\ memory' = [memory EXCEPT ![0] = "message"]
    <3>1. memory'[0] = "message"
      BY <1>5, <2>3
    <3>. QED
      BY <3>1 DEF WrittenInv
  <2>4. CASE pb_size' > pb_ds_size
    <3>1. \A m, n \in Nat : m > n => ~ (m + HeaderSize <= n)
      BY DEF HeaderSize
    <3>2. ~ (pb_size' + HeaderSize <= pb_ds_size)
      BY <2>1, <2>2, <2>4, <3>1
    <3>3. ~ Fits'
      BY <1>0, <3>2 DEF Fits
    <3>. QED
      BY <3>3 DEF WrittenInv
  <2>5. CASE phase' = "fault"
    BY <2>5 DEF WrittenInv, AfterFill
  <2>. QED
    BY <1>0, <2>3, <2>4, <2>5
<1>11. phase' \in {"compress", "fault"}
  BY <1>0
<1>12. SerialTypeOK'
  BY <1>0, <1>1, <1>11 DEF SerialTypeOK, SerialPhases
<1>13. HeaderInv' /\ ParsedInv' /\ HeldInv'
  BY <1>0, <1>1, <1>11 DEF HeaderInv, OversizeIsRefused, ParsedInv, HeldInv
<1>. QED
  BY <1>2, <1>9, <1>10, <1>12, <1>13 DEF SerialInv

\* compress() has its dataspace.
LEMMA AllocateKeepsSerialInv ==
  ASSUME SerialInv, compress_allocates
  PROVE  SerialInv'
<1>0. /\ phase = "compress" /\ phase' = "map" /\ held' = held \cup {"compressed"}
      /\ UNCHANGED <<childs, include_binary, child_list, attachments, pb_ds_size, pb_size,
                     memory, parsed>>
  BY DEF compress_allocates, messageVars
<1>1. SerialTypeOK /\ ConvertedInv /\ PlacedInv /\ WrittenInv /\ ParsedInv /\ HeldInv
  BY DEF SerialInv
<1>2. ConvertedInv' /\ PlacedInv'
  BY <1>0, <1>1, ConvertedStays, PlacedStays DEF AfterAttach
<1>3. SerialTypeOK'
  BY <1>0, <1>1 DEF SerialTypeOK, SerialPhases
<1>4. WrittenInv'
  BY <1>0, <1>1 DEF WrittenInv, AfterFill, Fits
<1>5. HeaderInv' /\ ParsedInv'
  BY <1>0, <1>1 DEF HeaderInv, OversizeIsRefused, ParsedInv
<1>6. HeldInv'
  BY <1>0, <1>1 DEF HeldInv
<1>. QED
  BY <1>2, <1>3, <1>4, <1>5, <1>6 DEF SerialInv

\* The dataspace and the region map are attached.
LEMMA MapKeepsSerialInv ==
  ASSUME SerialInv, compress_attaches
  PROVE  SerialInv'
<1>0. /\ phase = "map" /\ phase' = "deflate"
      /\ UNCHANGED <<childs, include_binary, child_list, attachments, pb_ds_size, pb_size,
                     memory, held, parsed>>
  BY DEF compress_attaches, messageVars
<1>1. SerialTypeOK /\ ConvertedInv /\ PlacedInv /\ WrittenInv /\ ParsedInv /\ HeldInv
  BY DEF SerialInv
<1>2. ConvertedInv' /\ PlacedInv'
  BY <1>0, <1>1, ConvertedStays, PlacedStays DEF AfterAttach
<1>3. SerialTypeOK'
  BY <1>0, <1>1 DEF SerialTypeOK, SerialPhases
<1>4. WrittenInv'
  BY <1>0, <1>1 DEF WrittenInv, AfterFill, Fits
<1>5. HeaderInv' /\ ParsedInv' /\ HeldInv'
  BY <1>0, <1>1 DEF HeaderInv, OversizeIsRefused, ParsedInv, HeldInv
<1>. QED
  BY <1>2, <1>3, <1>4, <1>5 DEF SerialInv

\* What is compressed is what was attached; the header has its size, if it can.
LEMMA DeflateKeepsSerialInv ==
  ASSUME SerialInv, compress_returns
  PROVE  SerialInv'
<1>0. /\ phase = "deflate" /\ phase' = "serialized" /\ total_size' = size(attachments) % Word
      /\ UNCHANGED <<childs, include_binary, child_list, attachments, pb_ds_size, pb_size,
                     memory, parsed>>
  BY DEF compress_returns, messageVars
<1>1. SerialTypeOK /\ ConvertedInv /\ PlacedInv /\ WrittenInv /\ ParsedInv
  BY DEF SerialInv
<1>2. ConvertedInv' /\ PlacedInv'
  BY <1>0, <1>1, ConvertedStays, PlacedStays DEF AfterAttach
<1>3. SerialTypeOK'
  BY <1>0, <1>1 DEF SerialTypeOK, SerialPhases
<1>4. WrittenInv'
  BY <1>0, <1>1 DEF WrittenInv, AfterFill, Fits
<1>5. HeaderInv' /\ ParsedInv' /\ HeldInv'
  BY <1>0, <1>1 DEF HeaderInv, OversizeIsRefused, ParsedInv, HeldInv
<1>. QED
  BY <1>2, <1>3, <1>4, <1>5 DEF SerialInv

\* After an exception the invariant says nothing but what the input was.
LEMMA FailuresKeepSerialInv ==
  ASSUME SerialInv, compress_fails \/ serialize_throws
  PROVE  SerialInv'
<1>0. phase' \in {"refused", "abandoned"} /\ UNCHANGED <<childs, include_binary>>
  BY DEF compress_fails, CleanUp, serialize_throws, messageVars
<1>1. pb_ds_size' \in Nat
  <2>1. pb_ds_size' = pb_ds_size
    BY DEF compress_fails, CleanUp, serialize_throws, messageVars
  <2>. QED
    BY <2>1 DEF SerialInv, SerialTypeOK
<1>2. SerialTypeOK
  BY DEF SerialInv
<1>3. SerialTypeOK'
  BY <1>0, <1>1, <1>2 DEF SerialTypeOK, SerialPhases
<1>4. ConvertedInv' /\ PlacedInv' /\ WrittenInv'
  BY <1>0 DEF ConvertedInv, PlacedInv, WrittenInv, AfterAttach, AfterFill
<1>5. HeaderInv' /\ ParsedInv' /\ HeldInv'
  BY <1>0 DEF HeaderInv, OversizeIsRefused, ParsedInv, HeldInv
<1>. QED
  BY <1>3, <1>4, <1>5 DEF SerialInv

\* A size that the header cannot hold is less than the real one.
LEMMA UncompressKeepsSerialInv ==
  ASSUME SerialInv, uncompress
  PROVE  SerialInv'
<1>0. /\ phase = "serialized" /\ phase' = "parse" /\ total_size >= size(attachments)
      /\ UNCHANGED <<childs, include_binary, child_list, attachments, pb_ds_size, pb_size,
                     memory, parsed>>
  BY DEF uncompress, messageVars
<1>1. SerialTypeOK /\ ConvertedInv /\ PlacedInv /\ WrittenInv /\ HeaderInv /\ ParsedInv
  BY DEF SerialInv
<1>2. ConvertedInv' /\ PlacedInv'
  BY <1>0, <1>1, ConvertedStays, PlacedStays DEF AfterAttach
<1>3. SerialTypeOK'
  BY <1>0, <1>1 DEF SerialTypeOK, SerialPhases
<1>4. WrittenInv'
  BY <1>0, <1>1 DEF WrittenInv, AfterFill, Fits
<1>5. size(attachments) < Word
  <2>1. IsLayout(attachments)
    BY <1>0, <1>1 DEF ConvertedInv
  <2>2. size(attachments) \in Nat
    BY <2>1, OffsetsAreDistinct
  <2>3. Word \in Nat \ {0}
    BY SerializerAssumption
  <2>4. total_size = size(attachments) % Word
    BY <1>0, <1>1 DEF HeaderInv
  <2>5. size(attachments) % Word < Word /\ size(attachments) % Word \in Nat
    BY <2>2, <2>3
  <2>. QED
    BY <1>0, <2>2, <2>3, <2>4, <2>5
<1>6. HeaderInv'
  BY <1>0, <1>5 DEF HeaderInv, OversizeIsRefused
<1>7. ParsedInv'
  <2>1. parsed' = <<>> /\ phase' # "parsed"
    BY <1>0, <1>1 DEF ParsedInv
  <2>2. IsSequence(parsed') /\ Len(parsed') = 0 /\ 1 .. 0 = {}
    BY <2>1, EmptySeq DEF IsSequence
  <2>3. childs' = childs /\ Len(childs) \in Nat
    BY <1>0, <1>1, LenProperties DEF SerialTypeOK
  <2>. QED
    BY <1>0, <2>1, <2>2, <2>3 DEF ParsedInv
<1>8. HeldInv'
  BY <1>0 DEF HeldInv
<1>. QED
  BY <1>2, <1>3, <1>4, <1>6, <1>7, <1>8 DEF SerialInv

\* A smaller size makes uncompress() fail.
LEMMA UncompressFailsKeepsSerialInv ==
  ASSUME SerialInv, uncompress_fails
  PROVE  SerialInv'
<1>0. /\ phase = "serialized" /\ phase' = "corrupt"
      /\ UNCHANGED <<childs, include_binary, child_list, attachments, pb_ds_size, memory>>
  BY DEF uncompress_fails, messageVars
<1>1. SerialTypeOK /\ ConvertedInv /\ PlacedInv
  BY DEF SerialInv
<1>2. ConvertedInv' /\ PlacedInv'
  BY <1>0, <1>1, ConvertedStays, PlacedStays DEF AfterAttach
<1>3. SerialTypeOK'
  BY <1>0, <1>1 DEF SerialTypeOK, SerialPhases
<1>4. WrittenInv' /\ HeaderInv' /\ ParsedInv' /\ HeldInv'
  BY <1>0 DEF WrittenInv, AfterFill, HeaderInv, OversizeIsRefused, ParsedInv, HeldInv
<1>. QED
  BY <1>2, <1>3, <1>4 DEF SerialInv

\* Inserting a list of one element puts it at the head.
LEMMA OneInserted ==
  ASSUME NEW S, NEW one \in Seq(S), NEW list \in Seq(S)
  PROVE  Len(one) = 1 =>
         /\ Inserted(one, list) \in Seq(S) /\ Len(Inserted(one, list)) = Len(list) + 1
         /\ Inserted(one, list)[1] = one[1]
         /\ \A i \in 1 .. Len(list) : Inserted(one, list)[1 + i] = list[i]
<1> DEFINE p == Inserted(one, list)
<1>1. p \in Seq(S)
  BY InsertedIs
<1>2. Len(p) = Len(one) + Len(list)
  BY InsertedIs
<1>3. \A i \in 1 .. Len(one) : p[i] = one[Len(one) + 1 - i]
  BY InsertedIs
<1>4. \A i \in 1 .. Len(list) : p[Len(one) + i] = list[i]
  BY InsertedIs
<1>. HIDE DEF p
<1>5. Len(list) \in Nat
  BY LenProperties
<1>6. ASSUME Len(one) = 1 PROVE Len(p) = Len(list) + 1 /\ p[1] = one[1]
  BY <1>2, <1>3, <1>5, <1>6
<1>7. ASSUME Len(one) = 1 PROVE \A i \in 1 .. Len(list) : p[1 + i] = list[i]
  BY <1>4, <1>7
<1>. QED
  BY <1>1, <1>6, <1>7 DEF p

LEMMA InsertedAtHead ==
  ASSUME NEW x, NEW list, IsSequence(list)
  PROVE  /\ IsSequence(Inserted(<<x>>, list)) /\ Len(Inserted(<<x>>, list)) = Len(list) + 1
         /\ Inserted(<<x>>, list)[1] = x
         /\ \A i \in 1 .. Len(list) : Inserted(<<x>>, list)[1 + i] = list[i]
<1>1. PICK S : list \in Seq(S)
  BY DEF IsSequence
<1>2. <<x>> \in Seq(S \cup {x}) /\ list \in Seq(S \cup {x}) /\ Len(<<x>>) = 1 /\ <<x>>[1] = x
  BY <1>1, SeqMonotonic
<1> DEFINE one == <<x>>
           T == S \cup {x}
<1>3. one \in Seq(T) /\ list \in Seq(T) /\ Len(one) = 1 /\ one[1] = x
  BY <1>2
<1>. HIDE DEF one, T
<1>4. Inserted(one, list) \in Seq(T)
  BY <1>3, OneInserted
<1>5. IsSequence(Inserted(one, list))
  BY <1>4 DEF IsSequence
<1>6. Len(Inserted(one, list)) = Len(list) + 1 /\ Inserted(one, list)[1] = x
  BY <1>3, OneInserted
<1>7. \A i \in 1 .. Len(list) : Inserted(one, list)[1 + i] = list[i]
  BY <1>3, OneInserted
<1>. QED
  BY <1>5, <1>6, <1>7 DEF one

\* The next child of the message is inserted at the head of the list.
LEMMA ParseKeepsSerialInv ==
  ASSUME SerialInv, parse_child
  PROVE  SerialInv'
<1>0. /\ phase = "parse" /\ phase' = phase /\ Len(parsed) < Len(Message)
      /\ \E wild \in SUBSET Unset(Message[Len(parsed) + 1]) :
           parsed' = Inserted(<<parse_child_info(Message[Len(parsed) + 1], wild)>>, parsed)
      /\ UNCHANGED <<childs, include_binary, child_list, attachments, pb_ds_size, pb_size,
                     memory, total_size, held>>
  BY DEF parse_child, messageVars
<1>1. SerialTypeOK /\ ConvertedInv /\ PlacedInv /\ WrittenInv /\ HeaderInv /\ ParsedInv
  BY DEF SerialInv
<1>2. ConvertedInv' /\ PlacedInv'
  BY <1>0, <1>1, ConvertedStays, PlacedStays DEF AfterAttach
<1>3. SerialTypeOK'
  BY <1>0, <1>1 DEF SerialTypeOK
<1>4. WrittenInv' /\ HeaderInv' /\ HeldInv'
  BY <1>0, <1>1 DEF WrittenInv, Fits, HeaderInv, OversizeIsRefused, HeldInv
<1>5. ParsedInv'
  <2>. SUFFICES ASSUME Fits PROVE /\ IsSequence(parsed') /\ Len(parsed') <= Len(childs)
                                  /\ \A i \in 1 .. Len(parsed') :
                                       IsChild(parsed'[Len(parsed') + 1 - i], childs[i])
    BY <1>0 DEF ParsedInv, Fits
  <2> DEFINE n == Len(parsed)
             m == child_list[n + 1]
             c == childs[n + 1]
  <2>1. Message = child_list
    <3>1. memory[0] = "message"
      BY <1>0, <1>1 DEF WrittenInv, AfterFill
    <3>. QED
      BY <3>1 DEF Message
  <2>2. PICK wild : parsed' = Inserted(<<parse_child_info(m, wild)>>, parsed)
    BY <1>0, <2>1
  <2>3. /\ IsSequence(parsed)
        /\ \A i \in 1 .. n : IsChild(parsed[n + 1 - i], childs[i])
    BY <1>0, <1>1 DEF ParsedInv
  <2>4. IsSequence(child_list) /\ Len(child_list) = Len(childs) /\ size(attachments) < Word
    BY <1>0, <1>1 DEF ConvertedInv, HeaderInv, OversizeIsRefused
  <2>5. n \in Nat /\ Len(childs) \in Nat /\ n < Len(childs)
    BY <1>0, <2>1, <2>3, <2>4, SequenceHasPlaces
  <2>. HIDE DEF n
  <2>6. n + 1 \in 1 .. Len(child_list) /\ n + 1 \in 1 .. Len(childs)
    BY <2>4, <2>5
  <2>7. IsChild(parse_child_info(m, wild), c)
    <3>1. c \in ChildInfos
      BY <1>1, <2>6, ElementOfSeq DEF SerialTypeOK
    <3>2. IsMessageOf(m, c)
      BY <1>0, <1>1, <2>6 DEF ConvertedInv
    <3>3. \A j \in DOMAIN c.rams : /\ m.rams[j].offset \in DOMAIN memory
                                   /\ memory[m.rams[j].offset] = c.rams[j].content
      BY <1>0, <2>4, <2>6, MessageTells DEF AfterAttach
    <3>. HIDE DEF m, c
    <3>. QED
      BY <3>1, <3>2, <3>3, ChildIsParsed
  <2> DEFINE x == parse_child_info(m, wild)
             p == Inserted(<<x>>, parsed)
  <2>8. p = parsed'
    BY <2>2
  <2>9. IsChild(x, c)
    BY <2>7
  <2>. HIDE DEF m, x
  <2>10. /\ IsSequence(p) /\ Len(p) = Len(parsed) + 1 /\ p[1] = x
         /\ \A i \in 1 .. Len(parsed) : p[1 + i] = parsed[i]
    <3>. HIDE DEF x
    <3>1. IsSequence(parsed)
      BY <2>3
    <3>2. IsSequence(p) /\ Len(p) = Len(parsed) + 1 /\ p[1] = x
      BY <3>1, InsertedAtHead
    <3>3. \A i \in 1 .. Len(parsed) : p[1 + i] = parsed[i]
      BY <3>1, InsertedAtHead
    <3>. QED
      BY <3>2, <3>3
  <2>. HIDE DEF p
  <2>11. Len(p) = n + 1 /\ p[1] = x /\ \A i \in 1 .. n : p[1 + i] = parsed[i]
    BY <2>10 DEF n
  <2>12. ASSUME NEW i \in 1 .. n + 1
         PROVE  IsChild(p[n + 1 + 1 - i], childs[i])
    <3>1. CASE i = n + 1
      <4>1. n + 1 + 1 - i = 1
        BY <2>5, <3>1
      <4>. QED
        BY <2>9, <2>11, <3>1, <4>1
    <3>2. CASE i # n + 1
      <4>1. i \in 1 .. n /\ n + 1 - i \in 1 .. n /\ 1 + (n + 1 - i) = n + 1 + 1 - i
        BY <2>5, <3>2
      <4>2. p[1 + (n + 1 - i)] = parsed[n + 1 - i]
        BY <2>11, <4>1
      <4>. QED
        BY <2>3, <4>1, <4>2
    <3>. QED
      BY <3>1, <3>2
  <2>13. n + 1 <= Len(childs)
    BY <2>5
  <2>14. IsSequence(p)
    BY <2>10
  <2>. QED
    BY <2>8, <2>11, <2>12, <2>13, <2>14
<1>. QED
  BY <1>2, <1>3, <1>4, <1>5 DEF SerialInv

\* parse() returns when the whole message is read.
LEMMA ReturnKeepsSerialInv ==
  ASSUME SerialInv, parse_returns
  PROVE  SerialInv'
<1>0. /\ phase = "parse" /\ phase' = "parsed" /\ Len(parsed) = Len(Message)
      /\ UNCHANGED <<childs, include_binary, child_list, attachments, pb_ds_size, pb_size,
                     memory, total_size, parsed>>
  BY DEF parse_returns, messageVars
<1>1. SerialTypeOK /\ ConvertedInv /\ PlacedInv /\ WrittenInv /\ HeaderInv /\ ParsedInv
  BY DEF SerialInv
<1>2. ConvertedInv' /\ PlacedInv'
  BY <1>0, <1>1, ConvertedStays, PlacedStays DEF AfterAttach
<1>3. SerialTypeOK'
  BY <1>0, <1>1 DEF SerialTypeOK, SerialPhases
<1>4. WrittenInv' /\ HeaderInv' /\ HeldInv'
  BY <1>0, <1>1 DEF WrittenInv, AfterFill, Fits, HeaderInv, OversizeIsRefused, HeldInv
<1>5. Fits => Len(parsed) = Len(childs)
  <2>. SUFFICES ASSUME Fits PROVE Len(parsed) = Len(childs)
    OBVIOUS
  <2>1. memory[0] = "message"
    BY <1>0, <1>1 DEF WrittenInv, AfterFill
  <2>2. Len(child_list) = Len(childs)
    BY <1>0, <1>1 DEF ConvertedInv
  <2>. QED
    BY <1>0, <2>1, <2>2 DEF Message
<1>6. ParsedInv'
  BY <1>0, <1>1, <1>5 DEF ParsedInv, Fits
<1>. QED
  BY <1>2, <1>3, <1>4, <1>6 DEF SerialInv

-----------------------------------------------------------------------------
(* The theorems. *)

\* The inductive invariant of the list of children and of the sessions: who holds
\* the lock, what a search has found, and where every pointer leads.
THEOREM PointerInvariant == ChildSpec => []PointerInv
<1>1. PointerInv /\ [ChildNext]_allVars => PointerInv'
  BY PointerInvStep
<1>. QED
  BY <1>1, PointerInvInit, PTL DEF ChildSpec

\* The requests of any number of entrypoints create one Child_info for a name.
\* (root_component.h 68-79)
THEOREM ChildIsUnique == ChildSpec => []OneInfoPerName
<1>1. PointerInv => OneInfoPerName
  BY DEF PointerInv, ListInv
<1>. QED
  BY <1>1, PointerInvariant, PTL

\* No pointer of a Child_info leads to a session that was destroyed.
THEOREM PointersStayOpen == ChildSpec => []PointersAreOpen
<1>1. PointerInv => PointersAreOpen
  BY DEF PointerInv
<1>. QED
  BY <1>1, PointerInvariant, PTL

\* A session that has never been one of two is registered as long as it is open.
THEOREM SessionStaysRegistered == ChildSpec => []SoleSessionIsRegistered
<1>1. PointerInv => SoleSessionIsRegistered
  BY DEF PointerInv
<1>. QED
  BY <1>1, PointerInvariant, PTL

\* The inductive invariant of the calls of Init_module: what the copies of a
\* Child_info lead to, why one of them can be null, and that a session which is
\* due lies ahead of the walk. (init_module.cc 94-176)
THEOREM WalkInvariant == ChildSpec => []WalkInv
<1>1. WalkInv /\ [ChildNext]_allVars => WalkInv'
  BY WalkInvStep
<1>. QED
  BY <1>1, WalkInvInit, PTL DEF ChildSpec

\* Init_module dereferences a freed session only after a close during the call, a
\* null pointer only of a child that was incomplete, was closed meanwhile, or has
\* had two sessions of a kind. (init_module.cc 94-176)
THEOREM FaultsHaveTheirCause == ChildSpec => []FaultsHaveACause
<1>1. WalkInv => FaultsHaveACause
  BY DEF WalkInv
<1>. QED
  BY <1>1, WalkInvariant, PTL

\* However many children and entrypoints there are, a checkpoint returns only when
\* it has taken every session that was registered from its beginning on.
\* (init_module.cc 122-176)
THEOREM RegisteredAreCheckpointed == ChildSpec => []RegisteredIsCheckpointed
<1>1. WalkInv => RegisteredIsCheckpointed
  <2>. SUFFICES ASSUME WalkInv, walk.at = "load", walk.child = 0, NEW d \in due
                PROVE  FALSE
    BY DEF RegisteredIsCheckpointed
  <2>1. d[2] \in DOMAIN sessions /\ sessions[d[2]].info <= 0
    BY DEF WalkInv, DueIsAhead, IsAhead
  <2>. QED
    BY <2>1, WalkFacts
<1>. QED
  BY <1>1, WalkInvariant, PTL

\* The inductive invariant of the quota: what was transferred on the way to a
\* notification, and what all children have of the budget.
THEOREM QuotaInvariant == ChildSpec => []QuotaInv
<1>1. QuotaInv /\ [ChildNext]_allVars => QuotaInv'
  BY QuotaInvStep
<1>. QED
  BY <1>1, QuotaInvInit, PTL DEF ChildSpec

\* Whatever the number of children, their requests and the transfers that fail:
\* what a child was notified of it has, and what all of them have is missing from
\* the budget. (child.cc 227-244)
THEOREM NotifiedWereGiven == ChildSpec => []NotifiedMeansGiven
<1>1. QuotaInv => NotifiedMeansGiven
  BY DEF QuotaInv
<1>. QED
  BY <1>1, QuotaInvariant, PTL

\* The inductive invariant of the serializer: what of the children is converted, where
\* the attachments lie, and what the message, the header and the parsed list hold.
THEOREM SerialInvariant == Spec => []SerialInv
<1>1. Init => SerialInv
  BY InitSerialInv
<1>2. SerialInv /\ [Next]_serializerVars => SerialInv'
  <2>. SUFFICES ASSUME SerialInv, [Next]_serializerVars PROVE SerialInv'
    OBVIOUS
  <2>1. CASE UNCHANGED serializerVars
    <3>1. /\ SerialTypeOK' /\ WrittenInv' /\ HeaderInv' /\ HeldInv'
      BY <2>1 DEF SerialInv, serializerVars, messageVars, SerialTypeOK, WrittenInv, Fits, HeaderInv,
                  OversizeIsRefused, HeldInv
    <3>2. ConvertedInv'
      BY <2>1 DEF SerialInv, serializerVars, messageVars, ConvertedInv
    <3>3. PlacedInv'
      BY <2>1 DEF SerialInv, serializerVars, messageVars, PlacedInv
    <3>4. ParsedInv'
      BY <2>1 DEF SerialInv, serializerVars, messageVars, ParsedInv, Fits
    <3>. QED
      BY <3>1, <3>2, <3>3, <3>4 DEF SerialInv
  <2>2. CASE serialize
    <3>. QED
      BY <2>2, ConvertKeepsSerialInv, CreateKeepsSerialInv, AttachKeepsSerialInv,
         FillKeepsSerialInv, AllocateKeepsSerialInv, MapKeepsSerialInv, DeflateKeepsSerialInv,
         FailuresKeepSerialInv DEF serialize, compress
  <2>3. CASE parse
    <3>. QED
      BY <2>3, UncompressKeepsSerialInv, UncompressFailsKeepsSerialInv, ParseKeepsSerialInv,
         ReturnKeepsSerialInv DEF parse
  <2>. QED
    BY <2>1, <2>2, <2>3 DEF Next
<1>. QED
  BY <1>1, <1>2, PTL DEF Spec

\* The message is laid out at the beginning; every other dataspace has a place of its
\* own, on a page, and as long as the offsets fit into 32 bits the message tells it.
\* (serializer.cc 78-93, 114-147)
THEOREM LayoutIsAlwaysSound == Spec => []LayoutIsSound
<1>1. SerialInv => LayoutIsSound
  <2>. SUFFICES ASSUME SerialInv,
                       phase \in {"fill", "compress", "map", "deflate", "serialized"}
                PROVE  /\ attachments[1].key = MessageKey
                       /\ \A o \in DOMAIN memory : o % PageSize = 0
                       /\ Cardinality(DOMAIN memory) = Len(attachments)
                       /\ size(attachments) < Word =>
                            \A i \in DOMAIN childs :
                              /\ \A j \in DOMAIN childs[i].rams :
                                   memory[child_list[i].rams[j].offset] = childs[i].rams[j].content
                              /\ include_binary => memory[child_list[i].binary] = "binary"
    BY DEF LayoutIsSound
  <2>1. IsLayout(attachments) /\ attachments[1].key = MessageKey /\ Len(child_list) = Len(childs)
    BY DEF SerialInv, ConvertedInv
  <2>2. DOMAIN memory = Offsets(attachments) /\ phase \in AfterAttach
    BY DEF SerialInv, PlacedInv, AfterAttach
  <2>3. \A o \in DOMAIN memory : o % PageSize = 0
    BY <2>1, <2>2, OffsetsAreDistinct DEF Offsets
  <2>4. Cardinality(DOMAIN memory) = Len(attachments)
    BY <2>1, <2>2, OffsetsAreAsMany
  <2>5. DOMAIN childs = 1 .. Len(child_list)
    <3>1. childs \in Seq(ChildInfos)
      BY DEF SerialInv, SerialTypeOK
    <3>. QED
      BY <2>1, <3>1, LenProperties
  <2>. QED
    BY <2>1, <2>2, <2>3, <2>4, <2>5, MessageTells
<1>. QED
  BY <1>1, SerialInvariant, PTL

\* If the message fits its dataspace, parse() restores every child with all of its
\* records in their order and the content of its dataspaces. (serializer.cc 524-826)
THEOREM ParseAlwaysRestores == Spec => []ParseRestores
<1>1. SerialInv => ParseRestores
  <2>. SUFFICES ASSUME SerialInv, phase = "parsed", Fits
                PROVE  /\ Len(parsed) = Len(childs)
                       /\ \A i \in DOMAIN childs : IsChild(Reverse(parsed)[i], childs[i])
    BY DEF ParseRestores
  <2>1. /\ IsSequence(parsed) /\ Len(parsed) = Len(childs)
        /\ \A i \in 1 .. Len(parsed) : IsChild(parsed[Len(parsed) + 1 - i], childs[i])
    BY DEF SerialInv, ParsedInv
  <2>2. Len(parsed) \in Nat
    BY <2>1, SequenceHasPlaces
  <2>3. DOMAIN childs = 1 .. Len(parsed)
    <3>1. childs \in Seq(ChildInfos)
      BY DEF SerialInv, SerialTypeOK
    <3>. QED
      BY <2>1, <3>1, LenProperties
  <2>4. \A i \in 1 .. Len(parsed) : Reverse(parsed)[i] = parsed[Len(parsed) + 1 - i]
    <3>1. \A i \in 1 .. Len(parsed) : Reverse(parsed)[i] = parsed[Len(parsed) - i + 1]
      BY DEF Reverse
    <3>2. \A i \in 1 .. Len(parsed) : Len(parsed) - i + 1 = Len(parsed) + 1 - i
      BY <2>2
    <3>. QED
      BY <3>1, <3>2
  <2>. QED
    BY <2>1, <2>3, <2>4
<1>. QED
  BY <1>1, SerialInvariant, PTL

\* A snapshot whose size the header cannot hold is not parsed, not even in part.
\* (serializer.cc 202-206, 543-553)
THEOREM OversizeIsAlwaysRefused == Spec => []OversizeIsRefused
<1>1. SerialInv => OversizeIsRefused
  BY DEF SerialInv, HeaderInv
<1>. QED
  BY <1>1, SerialInvariant, PTL

\* Whatever the children and their sizes, and wherever compress() fails: what serialize()
\* has allocated and attached is gone afterwards, and the dataspace of compress() is left
\* if and only if one of the two attachments failed. (serializer.cc 150-160, 180-199)
THEOREM FailureAlwaysLeavesNothing == Spec => FailureLeavesNothing
<1> DEFINE A == phase # "refused" /\ phase' = "refused" =>
                  /\ attachments' = <<>> /\ memory' = <<>>
                  /\ held' = IF phase = "map" THEN {"compressed"} ELSE {}
<1>1. SerialInv /\ [Next]_serializerVars => [A]_serializerVars
  <2>. SUFFICES ASSUME SerialInv, Next, phase # "refused", phase' = "refused"
                PROVE  /\ attachments' = <<>> /\ memory' = <<>>
                       /\ held' = IF phase = "map" THEN {"compressed"} ELSE {}
    OBVIOUS
  <2>1. ~ add_child_info /\ ~ create_dataspace /\ ~ attach /\ ~ fill /\ ~ serialize_throws
    BY DEF add_child_info, create_dataspace, attach, fill, serialize_throws
  <2>2. ~ compress_allocates /\ ~ compress_attaches /\ ~ compress_returns
    BY DEF compress_allocates, compress_attaches, compress_returns
  <2>3. ~ parse
    BY DEF parse, uncompress, uncompress_fails, parse_child, parse_returns
  <2>4. compress_fails
    BY <2>1, <2>2, <2>3 DEF Next, serialize, compress
  <2>5. /\ phase \in {"compress", "map", "deflate"}
        /\ held' = held \ (IF phase = "deflate" THEN {"message", "compressed"} ELSE {"message"})
        /\ attachments' = <<>> /\ memory' = <<>>
    BY <2>4 DEF compress_fails, CleanUp
  <2>6. held = IF phase = "compress" THEN {"message"} ELSE {"message", "compressed"}
    BY <2>5 DEF SerialInv, HeldInv
  <2>7. held' = IF phase = "map" THEN {"compressed"} ELSE {}
    BY <2>5, <2>6
  <2>. QED
    BY <2>5, <2>7
<1>. QED
  BY <1>1, SerialInvariant, PTL DEF Spec, FailureLeavesNothing
=============================================================================
