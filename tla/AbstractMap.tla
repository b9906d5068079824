----------------------------- MODULE AbstractMap -----------------------------
(***************************************************************************)
(* What a Triet program may expect of a HashMap: a finite map whose        *)
(* operations are called one at a time and take effect, all at once,       *)
(* before they return.  HashMap.tla shows that the runtime's open          *)
(* addressing does this.                                                   *)
(***************************************************************************)
CONSTANTS
  Keys, Values,
  Null      \* no key, no value: what a lookup that finds nothing returns

VARIABLES
  content,  \* key -> value, or Null
  call,     \* the operation called and not yet returned: [op, key, value]
  answer    \* what the operation before returned, until the next is called

vars == <<content, call, answer>>

Nobody  == [op |-> "idle", key |-> Null, value |-> Null]
Nothing == [key |-> Null, value |-> Null]
Calls   ==
  {[op |-> "insert", key |-> k, value |-> v] : k \in Keys, v \in Values}
  \cup {[op |-> o, key |-> k, value |-> Null] : o \in {"get", "contains", "remove"}, k \in Keys}
  \cup {[op |-> "drain", key |-> Null, value |-> Null]}

Present == {k \in Keys : content[k] # Null}

Init ==
  /\ content = [k \in Keys |-> Null]
  /\ call = Nobody
  /\ answer = Nothing

Call == call = Nobody /\ call' \in Calls /\ answer' = Nothing /\ UNCHANGED content

Return(k, v) == call' = Nobody /\ answer' = [key |-> k, value |-> v]

Insert ==
  /\ call.op = "insert"
  /\ content' = [content EXCEPT ![call.key] = call.value]
  /\ Return(Null, Null)

Get ==
  /\ call.op = "get"
  /\ Return(Null, content[call.key])
  /\ UNCHANGED content

Contains ==
  /\ call.op = "contains"
  /\ Return(IF call.key \in Present THEN call.key ELSE Null, Null)
  /\ UNCHANGED content

Remove ==
  /\ call.op = "remove"
  /\ Return(Null, content[call.key])
  /\ content' = [content EXCEPT ![call.key] = Null]

\* One turn of a drain loop: some entry is handed over, or none is left.
Drain ==
  /\ call.op = "drain"
  /\ \/ \E k \in Present : Return(k, content[k]) /\ content' = [content EXCEPT ![k] = Null]
     \/ Present = {} /\ Return(Null, Null) /\ UNCHANGED content

\* The map goes out of scope and the next one is empty.
Drop ==
  /\ call = Nobody
  /\ content' = [k \in Keys |-> Null]
  /\ answer' = Nothing
  /\ UNCHANGED call

Next == Call \/ Insert \/ Get \/ Contains \/ Remove \/ Drain \/ Drop

Spec == Init /\ [][Next]_vars
===============================================================================
