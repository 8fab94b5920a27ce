------------------------------ MODULE PendingSet ------------------------------
(***************************************************************************)
(* What callers may rely on when they change a server's pending set: each  *)
(* call takes effect on the whole set at one instant between its start and *)
(* its return.  A call whose answer from the store got lost may take       *)
(* effect more than once, one that reports an error may have taken effect. *)
(***************************************************************************)
CONSTANTS Callers, Items

VARIABLES
    pending,   \* the set
    op,        \* the operation each caller has started, or NoOp
    result     \* "none", "ok" or "error" per caller

NoOp == [kind |-> "none"]

Ops == [kind : {"insert", "remove"}, item : Items] \cup {[kind |-> "clear"]}

\* What an update closure makes of the set.
Effect(o, set) ==
    IF o.kind = "insert" THEN set \cup {o.item}
    ELSE IF o.kind = "remove" THEN set \ {o.item}
    ELSE {}

Init ==
    /\ pending = {}
    /\ op = [c \in Callers |-> NoOp]
    /\ result = [c \in Callers |-> "none"]

Start(c, o) ==
    /\ op[c] = NoOp
    /\ op' = [op EXCEPT ![c] = o]
    /\ UNCHANGED <<pending, result>>

Running(c) == op[c] # NoOp /\ result[c] = "none"

TakeEffect(c) ==
    /\ Running(c)
    /\ pending' = Effect(op[c], pending)
    /\ \E r \in {result[c], "ok", "error"} : result' = [result EXCEPT ![c] = r]
    /\ UNCHANGED op

Fail(c) ==
    /\ Running(c)
    /\ result' = [result EXCEPT ![c] = "error"]
    /\ UNCHANGED <<pending, op>>

\* The store forgets a set nobody has written for the time to live.
Expire ==
    /\ pending' = {}
    /\ UNCHANGED <<op, result>>

Next ==
    \/ \E c \in Callers : \/ \E o \in Ops : Start(c, o)
                          \/ TakeEffect(c) \/ Fail(c)
    \/ Expire

Spec == Init /\ [][Next]_<<pending, op, result>>
=============================================================================
