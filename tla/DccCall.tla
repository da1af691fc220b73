------------------------------- MODULE DccCall -------------------------------
(***************************************************************************)
(* What one call of the DCC client promises its user, with no network in   *)
(* it.  A call (Check or Report, dcc/client.go) is opened once and ends    *)
(* once, with the counts of one server or with an error.  A server may     *)
(* process the request of an opened call at any later time, more than once *)
(* or after the call ended; a call that succeeds took its counts from a    *)
(* server that did process it.                                             *)
(***************************************************************************)
CONSTANTS Calls,       \* the calls made on one Client
          Srv,         \* the configured servers
          NoServer     \* "no server yet": by[o] of a call without an answer

VARIABLES status,      \* status[o]: "idle", "open", "ok" or "err"
          handled,     \* the pairs <<o, s>> of a call and a server that processed it
          by           \* by[o]: the server whose counts the call returned

absVars == <<status, handled, by>>

Init == /\ status = [o \in Calls |-> "idle"]
        /\ handled = {}
        /\ by = [o \in Calls |-> NoServer]

Begin(o) == /\ status[o] = "idle"
            /\ status' = [status EXCEPT ![o] = "open"]
            /\ UNCHANGED <<handled, by>>

(* A message with no reportable checksum is refused without any traffic.   *)
Refuse(o) == /\ status[o] = "idle"
             /\ status' = [status EXCEPT ![o] = "err"]
             /\ UNCHANGED <<handled, by>>

Handle(o, s) == /\ status[o] # "idle"
                /\ handled' = handled \cup {<<o, s>>}
                /\ UNCHANGED <<status, by>>

Succeed(o, s) == /\ status[o] = "open"
                 /\ <<o, s>> \in handled
                 /\ status' = [status EXCEPT ![o] = "ok"]
                 /\ by' = [by EXCEPT ![o] = s]
                 /\ UNCHANGED handled

Fail(o) == /\ status[o] = "open"
           /\ status' = [status EXCEPT ![o] = "err"]
           /\ UNCHANGED <<handled, by>>

Next == \E o \in Calls :
          \/ Begin(o) \/ Refuse(o) \/ Fail(o)
          \/ \E s \in Srv : Handle(o, s) \/ Succeed(o, s)

Spec == Init /\ [][Next]_absVars
=============================================================================
