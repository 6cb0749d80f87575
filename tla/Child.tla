-------------------------------- MODULE Child --------------------------------
(***************************************************************************)
(* Rtcr::Child (src/rtcr/child.cc): its constructor creates the PD session *)
(* of the child and reads its quotas, then Genode::Child opens the child's *)
(* sessions; the policy routes session requests to the module's roots or   *)
(* to the parent, and hands on quota from the budget of rtcr.              *)
(*                                                                         *)
(* The thread of a Child is its child_ep.  What Genode::Child calls, and   *)
(* when, is modelled from how the policy is written.  The other threads    *)
(* serve the roots that are announced to the parent.  Services are named   *)
(* like the kinds of sessions; "other" is one that nobody provides.        *)
(***************************************************************************)
EXTENDS RootComponent

CONSTANTS
  Childs,           \* the threads that serve a Child
  Name,             \* Name[t]: the child's name, a label of one part
  Config,           \* Config[t]: its <child> node, [found, caps, quota]
  Absent,           \* the value of an attribute the node does not have
  Budget,           \* the quota of rtcr's own PD session
  Labels,           \* the labels of the requests to the announced roots
  Announced,        \* the kinds of sessions that they ask for
  ModuleServices,   \* the services of the module
  ParentServices,   \* the services of the parent
  Services,         \* the services that are asked for
  Requests          \* the resource requests

Resources == {"ram", "caps"}
NoQuota == [r \in Resources |-> 0]

ASSUME ChildAssumption ==
  /\ Childs \subseteq Threads
  /\ Budget \in [Resources -> Nat] /\ Requests \subseteq [Resources -> Nat]
  /\ ModuleServices \subseteq Kinds /\ Announced \subseteq Kinds
  /\ \A t \in Childs : Len(Name[t]) = 1
  /\ Absent \notin Nat
  /\ \A t \in Childs :
       Config[t] \in [found : BOOLEAN, caps : Nat \cup {Absent}, quota : Nat \cup {Absent}]

VARIABLES
  stage,      \* stage[t]: where the constructor or a request of the child is
  avail,      \* what is left of the budget
  quota,      \* quota[t]: the initial quota, as it was read
  given,      \* given[t]: what was transferred to the child's PD session
  asked,      \* asked[t]: the resource request that is handled
  promised    \* history: promised[t]: the initial quota and every request
              \* that the child was notified of

childVars == <<stage, avail, quota, given, asked, promised>>
allVars == <<vars, childVars>>

ChildInit ==
  /\ RootInit
  /\ stage = [t \in Childs |-> "none"]
  /\ avail = Budget
  /\ quota = [t \in Childs |-> NoQuota]
  /\ given = [t \in Childs |-> NoQuota]
  /\ asked = [t \in Childs |-> NoQuota]
  /\ promised = [t \in Childs |-> NoQuota]

At(t, s) == stage[t] = s /\ request[t] = Idle
Goto(t, s) == stage' = [stage EXCEPT ![t] = s]
Plus(p, q) == [r \in Resources |-> p[r] + q[r]]

-----------------------------------------------------------------------------
(* The constructor *)

create_pd_session(t) ==
  /\ stage[t] = "none"
  /\ create(t, Name[t], "pd")
  /\ Goto(t, "config")
  /\ UNCHANGED <<avail, quota, given, asked, promised>>

\* Both functions look for the attribute "caps"; a missing "quota" is 0.  If a
\* function throws there is no Child, but its PD session stays.
read_quotas(t) ==
  /\ At(t, "config")
  /\ IF Config[t].found /\ Config[t].caps # Absent
     THEN /\ quota' = [quota EXCEPT ![t] =
                         [ram |-> IF Config[t].quota = Absent THEN 0 ELSE Config[t].quota,
                          caps |-> Config[t].caps]]
          /\ Goto(t, "init_caps")
     ELSE Goto(t, "failed") /\ UNCHANGED quota
  /\ UNCHANGED <<vars, avail, given, asked, promised>>

\* The parent moves the amount or, if it is not available, throws.
transfer_quota(t, r, n, next) ==
  \/ /\ avail[r] >= n
     /\ avail' = [avail EXCEPT ![r] = @ - n]
     /\ given' = [given EXCEPT ![t][r] = @ + n]
     /\ Goto(t, next)
  \/ /\ avail[r] < n
     /\ Goto(t, "failed")
     /\ UNCHANGED <<avail, given>>

\* init() of the PD session: the capabilities, then the memory.
init_pd(t) ==
  /\ \/ At(t, "init_caps") /\ transfer_quota(t, "caps", quota[t]["caps"], "init_ram")
     \/ At(t, "init_ram") /\ transfer_quota(t, "ram", quota[t]["ram"], "open_cpu")
  /\ UNCHANGED <<vars, quota, asked, promised>>

\* Genode::Child opens the CPU session, under the child's name, and starts.
open_cpu(t) ==
  /\ At(t, "open_cpu")
  /\ create(t, Name[t], "cpu")
  /\ Goto(t, "running")
  /\ promised' = [promised EXCEPT ![t] = quota[t]]
  /\ UNCHANGED <<avail, quota, given, asked>>

-----------------------------------------------------------------------------
(* The policy *)

\* The PD session exists already; ROM sessions are never intercepted.
resolve_session_request(service) ==
  CASE service = "pd" -> "own_pd"
    [] service \in ModuleServices \ {"pd", "rom"} -> "module"
    [] service \in ParentServices \ (ModuleServices \ {"rom"}) -> "parent"
    [] OTHER -> "null"

\* A session that Genode::Child opens through the module has the label "<name> -> ".
\* The parent's sessions are none of this model's; a null pointer is dereferenced.
request_session(t, service) ==
  /\ At(t, "running")
  /\ \/ /\ resolve_session_request(service) = "module"
        /\ create(t, Append(Name[t], ""), service)
     \/ /\ resolve_session_request(service) = "null"
        /\ fault' = "unserved"
        /\ UNCHANGED <<rootVars, walkVars, history>>
  /\ UNCHANGED childVars

\* Closing the PD session leaves it open: its factory holds a single session.
close_session(t, o) ==
  /\ At(t, "running")
  /\ sessions[o].kind # "pd"
  /\ Unregister(t, o)
  /\ UNCHANGED childVars

resource_request(t, args) ==
  /\ At(t, "running")
  /\ asked' = [asked EXCEPT ![t] = args]
  /\ Goto(t, "give_ram")
  /\ UNCHANGED <<vars, avail, quota, given, promised>>

\* Mutant of give_resources: an exception is caught and the child is notified.
GiveAndNotify(t) ==
  /\ \/ /\ At(t, "give_ram")
        /\ transfer_quota(t, "ram", asked[t]["ram"], "give_caps")
        /\ UNCHANGED <<asked, promised>>
     \/ /\ At(t, "give_caps")
        /\ \/ transfer_quota(t, "caps", asked[t]["caps"], "running")
           \/ avail["caps"] < asked[t]["caps"] /\ Goto(t, "running") /\ UNCHANGED <<avail, given>>
        /\ promised' = [promised EXCEPT ![t] = Plus(@, asked[t])]
        /\ asked' = [asked EXCEPT ![t] = NoQuota]
  /\ UNCHANGED <<vars, quota>>

\* The memory, the capabilities, and notify_resource_avail().
give_resources(t) ==
  /\ \/ /\ At(t, "give_ram")
        /\ transfer_quota(t, "ram", asked[t]["ram"], "give_caps")
        /\ UNCHANGED <<asked, promised>>
     \/ /\ At(t, "give_caps")
        /\ transfer_quota(t, "caps", asked[t]["caps"], "running")
        /\ promised' = IF stage'[t] = "running"
                       THEN [promised EXCEPT ![t] = Plus(@, asked[t])] ELSE promised
        /\ asked' = [asked EXCEPT ![t] = NoQuota]
  /\ UNCHANGED <<vars, quota>>

-----------------------------------------------------------------------------
ChildStep(t) ==
  \/ create_pd_session(t) \/ read_quotas(t) \/ init_pd(t) \/ open_cpu(t)
  \/ \E service \in Services : request_session(t, service)
  \/ \E o \in DOMAIN sessions : close_session(t, o)
  \/ \E args \in Requests : resource_request(t, args)
  \/ give_resources(t)

\* A client of an announced root opens and closes sessions of any kind.
AnnouncedRoot(t) ==
  /\ \/ \E label \in Labels, kind \in Announced : create(t, label, kind)
     \/ \E o \in DOMAIN sessions : Unregister(t, o)
  /\ UNCHANGED childVars

ChildNext ==
  /\ fault = "none"
  /\ \/ \E t \in Childs : ChildStep(t)
     \/ \E t \in Threads \ Childs : AnnouncedRoot(t)
     \/ \E t \in Threads : Handle(t) /\ UNCHANGED childVars
     \/ Init_module /\ UNCHANGED childVars

ChildSpec == ChildInit /\ [][ChildNext]_allVars

-----------------------------------------------------------------------------
(* Properties *)

\* What all children were given.
Total(amounts, r) == SumFunction([t \in Childs |-> amounts[t][r]])

\* A child is notified of memory and capabilities only when both have arrived, and
\* what it got is missing from the budget the children share: a transfer that
\* fails between the two leaves the child waiting, never misinformed.
\* (child.cc 227-244)
NotifiedMeansGiven ==
  /\ \A t \in Childs, r \in Resources : promised[t][r] <= given[t][r]
  /\ \A r \in Resources : avail[r] + Total(given, r) = Budget[r]
=============================================================================
