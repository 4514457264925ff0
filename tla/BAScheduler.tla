------------------------------ MODULE BAScheduler ------------------------------
(***************************************************************************)
(* BACore's list of jobs to be done later, for one thread.  Loop processes *)
(* the jobs due when it was called and then completes them; jobs may       *)
(* register jobs from either callback.                                     *)
(***************************************************************************)
EXTENDS Naturals, Sequences

CONSTANTS
    Delays,  \* the values of delta_time
    MaxTime, \* bound of the clock
    MaxJobs  \* bound: calls of RegistJob

ASSUME DelaysAssumption == Delays \subseteq Nat

VARIABLES
    clock,     \* GetTickCount64
    waitJobs,  \* _wait_jobs, in the order of the multimap
    loopPc,    \* where Loop is: "out", "walk", in "process", "complete", in "completing"
    loopTime,  \* its _current
    complete,  \* its complete_jobs, less those whose Complete was called
    jobs,      \* history: the time each registered job is to run at
    processed, \* history: the jobs Process was called of
    completed  \* history: the jobs Complete was called of

schedVars == <<clock, waitJobs, loopPc, loopTime, complete, jobs, processed,
               completed>>

SchedInit ==
    /\ clock = 0 /\ waitJobs = << >> /\ jobs = << >>
    /\ loopPc = "out" /\ loopTime = 0 /\ complete = << >>
    /\ processed = << >> /\ completed = << >>

Tick == /\ clock < MaxTime /\ clock' = clock + 1
        /\ UNCHANGED <<waitJobs, loopPc, loopTime, complete, jobs, processed,
                       completed>>

\* RegistJob: the multimap inserts behind those of the same time.
RegistJob(delta) ==
    LET time == clock + delta IN
    /\ Len(jobs) < MaxJobs
    /\ jobs' = Append(jobs, time)
    /\ \E n \in 0 .. Len(waitJobs) :
         /\ \A i \in 1 .. n : waitJobs[i].first <= time
         /\ \A i \in n + 1 .. Len(waitJobs) : waitJobs[i].first > time
         /\ waitJobs' = SubSeq(waitJobs, 1, n)
                          \o << [first |-> time, second |-> Len(jobs')] >>
                          \o SubSeq(waitJobs, n + 1, Len(waitJobs))

\* The thread registers jobs between two calls of Loop, and from a callback as
\* many as it likes.
Regist == /\ loopPc \in {"out", "process", "completing"}
          /\ \E delta \in Delays : RegistJob(delta)
          /\ UNCHANGED <<clock, loopPc, loopTime, complete, processed, completed>>

LoopGoes(from, to) == loopPc = from /\ loopPc' = to /\ UNCHANGED clock

Loop == /\ LoopGoes("out", "walk")
        /\ loopTime' = clock
        /\ UNCHANGED <<waitJobs, complete, jobs, processed, completed>>

\* Mutant: a job due at the very time of Loop is left.
FirstOverdue == waitJobs # << >> /\ Head(waitJobs).first < loopTime

FirstDue == waitJobs # << >> /\ Head(waitJobs).first <= loopTime

\* Process of the first job is called.  The job is erased when it returns, but
\* whatever it registers comes behind it, and may come to stand next in the walk.
Process == /\ LoopGoes("walk", "process") /\ FirstDue
           /\ waitJobs' = Tail(waitJobs)
           /\ complete' = Append(complete, Head(waitJobs).second)
           /\ processed' = Append(processed, Head(waitJobs).second)
           /\ UNCHANGED <<loopTime, jobs, completed>>

WalkEnds == /\ LoopGoes("walk", "complete") /\ ~FirstDue
            /\ UNCHANGED <<waitJobs, loopTime, complete, jobs, processed, completed>>

Complete == /\ LoopGoes("complete", "completing") /\ complete # << >>
            /\ complete' = Tail(complete)
            /\ completed' = Append(completed, Head(complete))
            /\ UNCHANGED <<waitJobs, loopTime, jobs, processed>>

CallbackReturns ==
    /\ LoopGoes("process", "walk") \/ LoopGoes("completing", "complete")
    /\ UNCHANGED <<waitJobs, loopTime, complete, jobs, processed, completed>>

LoopReturns == /\ LoopGoes("complete", "out") /\ complete = << >>
               /\ loopTime' = 0
               /\ UNCHANGED <<waitJobs, complete, jobs, processed, completed>>

SchedNext == \/ Tick \/ Regist \/ Loop \/ Process \/ WalkEnds \/ Complete
             \/ CallbackReturns \/ LoopReturns \/ UNCHANGED schedVars

SchedSpec == SchedInit /\ [][SchedNext]_schedVars

----------------------------------------------------------------------------

Before(j, k) == jobs[j] < jobs[k] \/ (jobs[j] = jobs[k] /\ j < k)

Waits(j) == \E i \in DOMAIN waitJobs : waitJobs[i].second = j
Ran(j)   == \E i \in DOMAIN processed : processed[i] = j

\* A job that was registered waits or has been processed, and never both; none
\* is processed twice; and when Loop has returned, Complete was called of every
\* job that was processed, in the same order.
RunsOnce ==
    /\ \A j \in DOMAIN jobs : Waits(j) <=> ~Ran(j)
    /\ \A i, k \in DOMAIN processed : processed[i] = processed[k] => i = k
    /\ loopPc = "out" => completed = processed

\* No job is processed before its time or ahead of one that has waited for an
\* earlier time, whoever registered it and when; when Loop turns to completing,
\* no job whose time had come when it was called is left waiting; and jobs are
\* processed and completed as RunsOnce says.
JobsDue ==
    /\ []RunsOnce
    /\ [][\A j \in DOMAIN jobs :
            /\ processed' = Append(processed, j)
                 => /\ jobs[j] <= clock
                    /\ \A k \in DOMAIN jobs : Waits(k) => ~Before(k, j)
            /\ loopPc = "walk" /\ loopPc' = "complete"
                 => (Waits(j) => jobs[j] > loopTime)]_schedVars

=============================================================================
