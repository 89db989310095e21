---------------------------- MODULE ResultChain -----------------------------
(***************************************************************************)
(* What ate::AsyncResult promises about chains of then() (the header of    *)
(* include/ate/async_result.hpp), without a pool: every call settles; a    *)
(* callable runs only when all those before it in its chain have returned; *)
(* if one of them threw, its exception is the result of all that follow.   *)
(***************************************************************************)
EXTENDS Naturals, Sequences

CONSTANTS Tasks, NoTask

VARIABLES
  line,     \* [Tasks -> Seq(Tasks)]: the chain that ends in t; <<>> if none
  settled,  \* the tasks whose result is available
  error     \* [Tasks -> Tasks \cup {NoTask}]: whose exception the result is

chainVars == <<line, settled, error>>

Init ==
  /\ line = [t \in Tasks |-> <<>>]
  /\ settled = {}
  /\ error = [t \in Tasks |-> NoTask]

Earlier(t) == {line[t][i] : i \in 1..(Len(line[t]) - 1)}

Attach(s, t) ==
  /\ line[t] = <<>>
  /\ line' = [line EXCEPT ![t] = Append(s, t)]
  /\ UNCHANGED <<settled, error>>

(* A result has one successor at most: then() consumes it.                 *)
Continue(r, t) ==
  /\ line[r] # <<>> /\ \A u \in Tasks : line[u] # Append(line[r], u)
  /\ Attach(line[r], t)

Turn(t) == line[t] # <<>> /\ t \notin settled /\ Earlier(t) \subseteq settled

Thrown(t) == {u \in Earlier(t) : error[u] = u}

Run(t) ==
  /\ Turn(t) /\ Thrown(t) = {}
  /\ settled' = settled \cup {t}
  /\ \E e \in {NoTask, t} : error' = [error EXCEPT ![t] = e]
  /\ UNCHANGED line

Skip(t) ==
  /\ Turn(t)
  /\ \E e \in Thrown(t) : error' = [error EXCEPT ![t] = e]
  /\ settled' = settled \cup {t}
  /\ UNCHANGED line

Next ==
  \E t \in Tasks :
    Attach(<<>>, t) \/ Run(t) \/ Skip(t) \/ \E r \in Tasks : Continue(r, t)

SafeSpec == Init /\ [][Next]_chainVars

Spec == SafeSpec /\ \A t \in Tasks : WF_chainVars(Run(t) \/ Skip(t))

=============================================================================
