----------------------------- MODULE AdminService -----------------------------
(***************************************************************************)
(* What the Admin API promises its callers: one shared table of resources  *)
(* on which every call is carried out at one moment, in whole or not at    *)
(* all and never twice.  For a call that is answered with its result the   *)
(* moment lies between the call and the answer.  A call that its client    *)
(* gave up, or that failed, may have been carried out, may still be, much  *)
(* later, or never.  A call that is turned away is not carried out.        *)
(***************************************************************************)
EXTENDS Naturals

CONSTANTS
  None, Absent, Undecodable,
  Key,            \* what the table can hold something under
  Request,        \* the calls
  Stored,         \* what may be in the table at the beginning
  Calls,          \* which requests make which calls
  Valid(_),       \* whether a call may be carried out
  KeyOf(_),       \* the key a get, put or delete is about
  Reading(_, _)   \* what a read of a content says

VARIABLES
  content,   \* the table
  call,      \* [op, authorized, collection, id, body]
  phase,     \* "new", "open", "refused", "answered" or "givenup"
  effect,    \* <<>>, or what the call found when it was carried out
  told       \* what its client is told: [status, found]

serviceVars == <<content, call, phase, effect, told>>

NotTold == [status |-> None, found |-> None]

ServiceInit ==
  /\ content \in Stored
  /\ call \in Calls
  /\ phase = [r \in Request |-> "new"]
  /\ effect = [r \in Request |-> <<>>]
  /\ told = [r \in Request |-> NotTold]

Tell(r, status, found) == told' = [told EXCEPT ![r] = [status |-> status, found |-> found]]

Refusal(c) == IF ~c.authorized THEN "unauthorized" ELSE "invalid"

Refuse(r) ==
  /\ phase[r] = "new"
  /\ ~call[r].authorized \/ ~Valid(call[r])
  /\ phase' = [phase EXCEPT ![r] = "refused"]
  /\ Tell(r, Refusal(call[r]), None)
  /\ UNCHANGED <<content, call, effect>>

Invoke(r) ==
  /\ phase[r] = "new"
  /\ call[r].authorized /\ Valid(call[r])
  /\ phase' = [phase EXCEPT ![r] = "open"]
  /\ UNCHANGED <<content, call, effect, told>>

After(c) ==
  CASE c.op = "put"    -> [content EXCEPT ![KeyOf(c)] = c.body]
    [] c.op = "delete" -> [content EXCEPT ![KeyOf(c)] = Absent]
    [] OTHER           -> content

\* The one moment.
TakeEffect(r) ==
  /\ phase[r] \in {"open", "givenup"}
  /\ effect[r] = <<>>
  /\ effect' = [effect EXCEPT ![r] = <<Reading(call[r], content)>>]
  /\ content' = After(call[r])
  /\ UNCHANGED <<call, phase, told>>

Decodes(op, found) ==
  CASE op = "get"  -> found # Undecodable
    [] op = "list" -> Undecodable \notin found
    [] OTHER       -> TRUE

StatusFor(op, found) ==
  IF op \in {"get", "delete"} /\ found = Absent THEN "not_found" ELSE "ok"

Return(r) ==
  LET op == call[r].op
      found == effect[r][1]
  IN
  /\ phase[r] = "open"
  /\ effect[r] # <<>>
  /\ Decodes(op, found)
  /\ phase' = [phase EXCEPT ![r] = "answered"]
  /\ Tell(r, StatusFor(op, found), found)
  /\ UNCHANGED <<content, call, effect>>

GiveUp(r) ==
  /\ phase[r] = "open"
  /\ phase' = [phase EXCEPT ![r] = "givenup"]
  /\ \E status \in {"internal", "gone"} : Tell(r, status, None)
  /\ UNCHANGED <<content, call, effect>>

ServiceNext ==
  \E r \in Request :
    Refuse(r) \/ Invoke(r) \/ TakeEffect(r) \/ Return(r) \/ GiveUp(r)

ServiceSafety == ServiceInit /\ [][ServiceNext]_serviceVars
=============================================================================
