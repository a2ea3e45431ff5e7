----------------------------- MODULE RequestPool -----------------------------
(***************************************************************************)
(* How uvicorn serves requests with threads and connections.  Everything   *)
(* the application runs for a request is synchronous, so FastAPI runs the   *)
(* opening of the session, each dependency, the handler and the validation *)
(* of the response one after the other, each as a job of a thread: a job   *)
(* takes one of the tokens of a limiter and gives it back when it ends.    *)
(* The first query of a session takes a connection from the pool of the    *)
(* engine (database.py), and keeps it through the following jobs until a   *)
(* commit or the closing of the session.  So a request without a thread may*)
(* hold a connection, and one with a thread may wait for one.              *)
(*                                                                         *)
(* The real numbers are 40 threads, pool_size + max_overflow = 15          *)
(* connections and 30 seconds of waiting for one.                          *)
(***************************************************************************)
EXTENDS Naturals, Sequences, FiniteSets

CONSTANTS
  MaxRequests,  \* bound: the requests that come, numbered as they come
  Routes,       \* the jobs of each kind of route, in their order
  Threads,      \* the tokens of the limiter
  Connections,  \* pool_size + max_overflow
  MaxCommits    \* bound: the commits of one handler

Requests == 1..MaxRequests

PoolJobs == {"get_db", "get_current_user", "require_role", "handler", "validate"}

ASSUME PoolAssumption ==
  /\ Routes \subseteq Seq(PoolJobs) \ {<<>>}
  /\ Threads \in Nat \ {0} /\ Connections \in Nat \ {0} /\ MaxCommits \in Nat
  /\ MaxRequests \in Nat

VARIABLES
  at,         \* where the task of a request is
  jobs,       \* the jobs a request still has
  waiters,    \* the queue of the limiter
  held,       \* the requests whose session has a connection
  commits     \* the commits each handler has done

poolVars == <<at, jobs, waiters, held, commits>>

PoolInit ==
  /\ at = [r \in Requests |-> "away"]
  /\ jobs = [r \in Requests |-> <<>>]
  /\ waiters = <<>>
  /\ held = {}
  /\ commits = [r \in Requests |-> 0]

Borrowers == {r \in Requests : at[r] \in {"running", "asking"}}

Arrive(r) ==
  /\ at[r] = "away" /\ \A s \in 1..(r - 1) : at[s] # "away"
  /\ at' = [at EXCEPT ![r] = "loop"]
  /\ \E route \in Routes : jobs' = [jobs EXCEPT ![r] = route]
  /\ UNCHANGED <<waiters, held, commits>>

-----------------------------------------------------------------------------
(* The limiter.                                                             *)

Acquire(r) ==
  /\ at[r] = "loop"
  /\ IF waiters = <<>> /\ Cardinality(Borrowers) < Threads
     THEN at' = [at EXCEPT ![r] = "running"] /\ UNCHANGED waiters
     ELSE at' = [at EXCEPT ![r] = "queued"] /\ waiters' = Append(waiters, r)
  /\ UNCHANGED <<jobs, held, commits>>

\* A waiter that was notified takes a token without looking again: for a moment
\* there may be one more than the limiter has.
Resume(r) ==
  /\ at[r] = "notified"
  /\ at' = [at EXCEPT ![r] = "running"]
  /\ UNCHANGED <<jobs, waiters, held, commits>>

\* The job of r ends: its token goes back, the first waiter is told if there is one
\* to have, and r goes where it is said.
Release(r, next) ==
  IF waiters # <<>> /\ Cardinality(Borrowers \ {r}) < Threads
  THEN /\ at' = [at EXCEPT ![r] = next, ![Head(waiters)] = "notified"]
       /\ waiters' = Tail(waiters)
  ELSE /\ at' = [at EXCEPT ![r] = next]
       /\ UNCHANGED waiters

-----------------------------------------------------------------------------
(* What a job does.                                                         *)

\* The session needs a connection: in the user's query, in the handler, and while the
\* response is validated, if it reads what a commit has expired.
Ask(r) ==
  /\ at[r] = "running"
  /\ Head(jobs[r]) \in {"get_current_user", "handler", "validate"}
  /\ r \notin held
  /\ at' = [at EXCEPT ![r] = "asking"]
  /\ UNCHANGED <<jobs, waiters, held, commits>>

TakeConnection(r) ==
  /\ at[r] = "asking"
  /\ Cardinality(held) < Connections
  /\ held' = held \cup {r}
  /\ at' = [at EXCEPT ![r] = "running"]
  /\ UNCHANGED <<jobs, waiters, commits>>

\* Faulty: a pool that waits for ever.
TimeOut_Never(r) ==
  /\ at[r] = "asking" /\ FALSE
  /\ UNCHANGED poolVars

\* No connection came back in time: the job raises, and the answer is an error.
TimeOut(r) ==
  /\ at[r] = "asking"
  /\ Cardinality(held) >= Connections
  /\ Release(r, "closing")
  /\ UNCHANGED <<jobs, held, commits>>

\* The handler commits; what it does next, if anything, needs a connection again.
Commit(r) ==
  /\ at[r] = "running"
  /\ Head(jobs[r]) = "handler"
  /\ r \in held
  /\ commits[r] < MaxCommits
  /\ held' = held \ {r}
  /\ commits' = [commits EXCEPT ![r] = @ + 1]
  /\ UNCHANGED <<at, jobs, waiters>>

\* Has the job done its queries, if it has to make any?
Queried(r) ==
  CASE Head(jobs[r]) = "get_current_user" -> r \in held
    [] Head(jobs[r]) = "handler" -> r \in held \/ commits[r] > 0
    [] OTHER -> TRUE

FinishJob(r) ==
  /\ at[r] = "running"
  /\ Queried(r)
  /\ jobs' = [jobs EXCEPT ![r] = Tail(@)]
  /\ IF Len(jobs[r]) > 1
     THEN Release(r, "loop")
     ELSE Release(r, "closing")
  /\ UNCHANGED <<held, commits>>

\* An HTTPException: no such user, not the role, or what the handler refuses.
Refuse(r) ==
  /\ at[r] = "running"
  /\ Head(jobs[r]) \in {"get_current_user", "require_role", "handler"}
  /\ Queried(r)
  /\ Release(r, "closing")
  /\ UNCHANGED <<jobs, held, commits>>

\* db.close() has a limiter of its own: it waits for nobody.
Close(r) ==
  /\ at[r] = "closing"
  /\ at' = [at EXCEPT ![r] = "ended"]
  /\ held' = held \ {r}
  /\ UNCHANGED <<jobs, waiters, commits>>

\* What happens to a request without anybody's doing.
Proceed(r) ==
  \/ Acquire(r) \/ Resume(r)
  \/ Ask(r) \/ TakeConnection(r) \/ TimeOut(r)
  \/ Commit(r) \/ FinishJob(r) \/ Refuse(r)
  \/ Close(r)

PoolNext == \E r \in Requests : Arrive(r) \/ Proceed(r)

PoolFairness == \A r \in Requests : WF_poolVars(Proceed(r))

PoolSpec == PoolInit /\ [][PoolNext]_poolVars /\ PoolFairness

-----------------------------------------------------------------------------
(* Properties.                                                              *)

\* Every request that came is answered and its session closed: threads that wait for
\* connections and connections that wait for threads may all wait for each other, and
\* yet it passes, as a wait for a connection ends by itself.
EveryRequestEnds == \A r \in Requests : (at[r] # "away") ~> (at[r] = "ended")

=============================================================================
