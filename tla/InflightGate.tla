---------------------------- MODULE InflightGate ----------------------------
(***************************************************************************)
(* The admission gate of the document API (src/inflight_gate.py) and the   *)
(* route that uses it, process_document_route of src/app_doc_api.py: a     *)
(* pool of server threads, a counter of slots under a lock, an immediate   *)
(* 503 when all slots are taken.                                           *)
(***************************************************************************)
EXTENDS Naturals, FiniteSets

CONSTANTS
  Workers,       \* the server's threads (SERVER_THREADS)
  Limit,         \* InflightGate.limit
  MaxRequests,   \* bound: requests to the route
  MaxBadBodies   \* bound: requests whose form cannot be read

ASSUME GateAssumption ==
  /\ IsFiniteSet(Workers)
  /\ Limit \in Nat \ {0}
  /\ MaxRequests \in Nat
  /\ MaxBadBodies \in Nat

VARIABLES
  at,               \* where each thread is in the route
  token,            \* the token it holds, 0 for None
  in_flight,        \* _in_flight
  peak,             \* _peak
  admitted_total,   \* _admitted_total
  rejected_total,   \* _rejected_total
  started,          \* the tokens of _started
  bad_bodies        \* forms that could not be read so far

gateVars == <<in_flight, peak, admitted_total, rejected_total, started>>
vars == <<at, token, gateVars, bad_bodies>>

Places == {"idle", "gate", "admitted", "body", "leaving", "refused"}
Holding(w) == at[w] \in {"admitted", "body", "leaving"}
Holders == {w \in Workers : Holding(w)}

Move(w, place) == at' = [at EXCEPT ![w] = place]

Arrive(w) ==
  /\ at[w] = "idle"
  /\ admitted_total + rejected_total + Cardinality({u \in Workers : at[u] = "gate"})
       < MaxRequests
  /\ Move(w, "gate")
  /\ UNCHANGED <<token, gateVars, bad_bodies>>

\* A slip: one request more than the limit.
FullAboveLimit == in_flight > Limit

Full == in_flight >= Limit

\* try_enter, all of it under the lock.
TryEnter(w) ==
  /\ at[w] = "gate"
  /\ IF Full
     THEN /\ rejected_total' = rejected_total + 1
          /\ Move(w, "refused")
          /\ UNCHANGED <<in_flight, peak, admitted_total, started, token>>
     ELSE /\ in_flight' = in_flight + 1
          /\ admitted_total' = admitted_total + 1
          /\ peak' = IF in_flight' > peak THEN in_flight' ELSE peak
          /\ token' = [token EXCEPT ![w] = admitted_total + 1]
          /\ started' = started \cup {admitted_total + 1}
          /\ Move(w, "admitted")
          /\ UNCHANGED rejected_total
  /\ UNCHANGED bad_bodies

\* The 503 with its Retry-After.
Refuse(w) ==
  /\ at[w] = "refused"
  /\ Move(w, "idle")
  /\ UNCHANGED <<token, gateVars, bad_bodies>>

\* The admitted request is logged with its file name before the try block ...
ReadForm(w) ==
  /\ at[w] = "admitted"
  /\ Move(w, "body")
  /\ UNCHANGED <<token, gateVars, bad_bodies>>

\* ... and reading the form can raise (a body beyond MAX_CONTENT_LENGTH): the
\* request ends there, and nobody has the token any more.
FormFails(w) ==
  /\ at[w] = "admitted"
  /\ bad_bodies < MaxBadBodies
  /\ bad_bodies' = bad_bodies + 1
  /\ token' = [token EXCEPT ![w] = 0]
  /\ Move(w, "idle")
  /\ UNCHANGED gateVars

\* The handler's body returns or raises; both lead to the finally block.
RunBody(w) ==
  /\ at[w] = "body"
  /\ Move(w, "leaving")
  /\ UNCHANGED <<token, gateVars, bad_bodies>>

\* A slip: the token is dropped, the counter is not.
DropToken(t) == started' = started \ {t} /\ UNCHANGED in_flight

\* leave: an unknown token is ignored.
ReleaseToken(t) ==
  IF t \in started
  THEN started' = started \ {t} /\ in_flight' = in_flight - 1
  ELSE UNCHANGED <<started, in_flight>>

Leave(w) ==
  /\ at[w] = "leaving"
  /\ ReleaseToken(token[w])
  /\ token' = [token EXCEPT ![w] = 0]
  /\ Move(w, "idle")
  /\ UNCHANGED <<peak, admitted_total, rejected_total, bad_bodies>>

Init ==
  /\ at = [w \in Workers |-> "idle"]
  /\ token = [w \in Workers |-> 0]
  /\ in_flight = 0 /\ peak = 0
  /\ admitted_total = 0 /\ rejected_total = 0
  /\ started = {}
  /\ bad_bodies = 0

\* What a server thread does without a new request.
Serve(w) ==
  TryEnter(w) \/ Refuse(w) \/ ReadForm(w) \/ RunBody(w) \/ Leave(w)

Next == \E w \in Workers : Arrive(w) \/ Serve(w) \/ FormFails(w)

Spec == Init /\ [][Next]_vars

\* Server threads are run; the document engine is assumed to return.
FairSpec == Spec /\ \A w \in Workers : WF_vars(Serve(w))

-----------------------------------------------------------------------------
(* Properties. *)

\* Types and bounds: no more than the limit are, or ever were, in flight.
TypeOK ==
  /\ at \in [Workers -> Places]
  /\ token \in [Workers -> Nat]
  /\ in_flight \in 0..Limit /\ peak \in 0..Limit
  /\ admitted_total \in Nat /\ rejected_total \in Nat
  /\ started \in SUBSET Nat /\ IsFiniteSet(started)
  /\ bad_bodies \in 0..MaxBadBodies

\* What the health endpoint reports as in flight is what is being processed,
\* plus one for every form that could not be read: each of those costs a slot for
\* good, and nothing else does. No two requests share a slot, and none is
\* processed without one (try_enter, leave, snapshot).
GateExact ==
  /\ in_flight = Cardinality(Holders) + bad_bodies
  /\ in_flight = Cardinality(started) /\ in_flight <= peak
  /\ \A w \in Workers : Holding(w) => token[w] \in started
  /\ \A w, u \in Workers :
       Holding(w) /\ Holding(u) /\ token[w] = token[u] => w = u

\* A request is turned away only while as many as the limit are being
\* processed or were lost to a form that could not be read.
RefusedOnlyWhenFull ==
  [][rejected_total' # rejected_total =>
       Cardinality(Holders) + bad_bodies >= Limit]_vars

\* The 503 says: "This is a queue, not an outage" (busy_payload). A full gate
\* has a free slot again and again, until as many forms as it has slots could
\* not be read: from then on it is an outage, and only a restart ends it.
BusyEnds == []<>(in_flight < Limit \/ bad_bodies >= Limit)
=============================================================================
