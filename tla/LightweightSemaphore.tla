------------------------ MODULE LightweightSemaphore ------------------------
(***************************************************************************)
(* The semaphore of the request queue (moodycamel::LightweightSemaphore):  *)
(* a counter that is below zero while somebody sleeps, over a semaphore of *)
(* the system that is only used then.                                      *)
(*                                                                         *)
(* These are the accesses to the two, one action each; what a thread does  *)
(* next is up to the module that uses them.                                *)
(***************************************************************************)
EXTENDS Integers

VARIABLES m_count, m_sema

semaphore == <<m_count, m_sema>>

SemaphoreInit == m_count = 0 /\ m_sema = 0

Min2(a, b) == IF a < b THEN a ELSE b

Positive == m_count > 0

(* tryWaitMany and the spinning of waitManyWithPartialSpinning: as many as *)
(* there are, if there are any.  A CAS that fails is tried again.          *)
Many(max) == Min2(m_count, max)

TryWaitMany(max) ==
    /\ Positive
    /\ m_count' = m_count - Many(max)
    /\ UNCHANGED m_sema

(* The end of the spinning: who finds nothing has to sleep.                *)
(* Mutant: the counter does not tell that somebody sleeps.                 *)
CountDown_NotBelowZero ==
    m_count' = IF Positive THEN m_count - 1 ELSE m_count

CountDown == m_count' = m_count - 1

(* Semaphore::wait                                                         *)
Sleep ==
    /\ m_sema > 0
    /\ m_sema' = m_sema - 1
    /\ UNCHANGED m_count

(* signal: the system's semaphore is raised for who sleeps.                *)
CountUp == m_count' = m_count + 1

ToRelease == Min2(-m_count, 1)

Raise ==
    /\ m_sema' = m_sema + 1
    /\ UNCHANGED m_count
=============================================================================
