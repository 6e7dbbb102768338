------------------------- MODULE InstanceLockProofs -------------------------
(***************************************************************************)
(* Proofs about InstanceLock.tla, for any set of pids and any file the     *)
(* first process may find.                                                 *)
(***************************************************************************)
EXTENDS InstanceLock, TLAPS

\* A process that drives the endpoint, or is about to give it up.
Owning(p) == pc[p] \in {"holding", "unlink"}

\* A process that has decided that the endpoint is free.
Writer(p) == pc[p] \in {"truncate", "payload", "rewrite", "orphan"}

OneAcquirer ==
  \A p, q \in Procs : pc[p] \in Acquiring /\ pc[q] \in Acquiring => p = q

OwnerNamed == \A q \in Procs : Owning(q) => file = q

SeesOwner == \A p, q \in Procs : At(p, "judge") /\ Owning(q) => seen[p] = q

WriterAlone == \A p, q \in Procs : Writer(p) => ~Owning(q)

\* No file is unlinked under the process that is writing it.
NoOrphan == \A p \in Procs : ~At(p, "orphan")

IInv == TypeOK /\ OneAcquirer /\ OwnerNamed /\ SeesOwner /\ WriterAlone /\ NoOrphan

-----------------------------------------------------------------------------

\* Nothing is owned and nobody acquires at the start.
LEMMA LockInit == Init => IInv
BY LockAssumption
   DEF Init, IInv, TypeOK, OneAcquirer, OwnerNamed, SeesOwner, WriterAlone, NoOrphan, Contents,
       Places, Acquiring, Owning, Writer, At

\* The types alone survive every step.
LEMMA LockTypeStep == TypeOK /\ [Next]_vars => TypeOK'
<1>. SUFFICES ASSUME TypeOK, [Next]_vars PROVE TypeOK'
  OBVIOUS
<1>. USE DEF TypeOK, Contents, Places, Acquiring, Writing
<1>1. CASE UNCHANGED vars
  BY <1>1 DEF vars
<1>2. ASSUME NEW p \in Procs, Start(p) \/ Acquire(p) \/ ReadOwn(p) PROVE TypeOK'
  BY <1>2 DEF Start, Acquire, ReadOwn, Create, WritePayload, ReadSettled, Refuse, TakeOver,
              Truncate, Goto, At
<1>3. ASSUME NEW p \in Procs, Unlink(p) \/ Exit(p) \/ Kill(p) PROVE TypeOK'
  BY <1>3 DEF Unlink, Exit, Kill, Goto, At
<1>. QED
  BY <1>1, <1>2, <1>3 DEF Next

\* With one process in acquire() at a time, each step keeps the invariant.
LEMMA LockStep == ASSUME ~Overlap PROVE IInv /\ [Next]_vars => IInv'
<1>. SUFFICES ASSUME IInv, [Next]_vars PROVE IInv'
  OBVIOUS
<1>. USE LockAssumption
     DEF IInv, TypeOK, OneAcquirer, OwnerNamed, SeesOwner, WriterAlone, NoOrphan,
         Acquiring, Owning, Writer, Writing, At, Goto
<1>1. TypeOK'
  BY LockTypeStep
<1>2. CASE UNCHANGED vars
  BY <1>2 DEF vars
<1>3. ASSUME NEW p \in Procs, Start(p) PROVE IInv'
  BY <1>1, <1>3 DEF Start
<1>4. ASSUME NEW p \in Procs, Create(p) PROVE IInv'
  BY <1>1, <1>4 DEF Create
<1>5. ASSUME NEW p \in Procs, WritePayload(p) PROVE IInv'
  BY <1>1, <1>5 DEF WritePayload
<1>6. ASSUME NEW p \in Procs, ReadSettled(p) PROVE IInv'
  BY <1>1, <1>6 DEF ReadSettled
<1>7. ASSUME NEW p \in Procs, Refuse(p) PROVE IInv'
  BY <1>1, <1>7 DEF Refuse
<1>8. ASSUME NEW p \in Procs, TakeOver(p) PROVE IInv'
  <2>1. \A q \in Procs : ~Owning(q)
    BY <1>8 DEF TakeOver, ForeignLock, PidAlive
  <2>. QED
    BY <1>1, <1>8, <2>1 DEF TakeOver
<1>9. ASSUME NEW p \in Procs, Truncate(p) PROVE IInv'
  BY <1>1, <1>9 DEF Truncate
<1>10. ASSUME NEW p \in Procs, ReadOwn(p) PROVE IInv'
  BY <1>1, <1>10 DEF ReadOwn
<1>11. ASSUME NEW p \in Procs, Unlink(p) PROVE IInv'
  <2>1. \A q \in Procs : pc[q] \notin Writing
    BY <1>11 DEF Unlink
  <2>2. Goto(p, "leaving")
    BY <1>11, <2>1 DEF Unlink
  <2>3. \A q \in Procs \ {p} : ~Owning(q)
    BY <1>11 DEF Unlink
  <2>. QED
    BY <1>1, <1>11, <2>2, <2>3 DEF Unlink
<1>12. ASSUME NEW p \in Procs, Exit(p) \/ Kill(p) PROVE IInv'
  BY <1>1, <1>12 DEF Exit, Kill
<1>. QED
  BY <1>2, <1>3, <1>4, <1>5, <1>6, <1>7, <1>8, <1>9, <1>10, <1>11, <1>12 DEF Next, Acquire

-----------------------------------------------------------------------------

\* SingleInstanceLock keeps two live processes from driving one endpoint, through
\* releases, kills at any system call, failed unlinks, reused pids and any file left
\* behind, as long as no two processes are inside acquire() at the same time.
THEOREM LockExcludes == ~Overlap => (Spec => []MutualExclusion)
<1>. SUFFICES ASSUME ~Overlap PROVE Spec => []MutualExclusion
  OBVIOUS
<1>1. Init => IInv
  BY LockInit
<1>2. IInv /\ [Next]_vars => IInv'
  BY LockStep
<1>3. IInv => MutualExclusion
  BY DEF IInv, OwnerNamed, MutualExclusion, Holders, Owning
<1>. QED
  BY <1>1, <1>2, <1>3, PTL DEF Spec

\* Under the same assumption nobody is locked out by the dead: whoever judges is alone in
\* acquire(), so the live process it finds in the file is one that holds the endpoint or
\* has not yet ended, also when a pid is used again between the read and the verdict.
THEOREM NobodyLockedOut == ~Overlap => (Spec => NeverLockedOut)
<1>. SUFFICES ASSUME ~Overlap PROVE Spec => NeverLockedOut
  OBVIOUS
<1>1. Init => IInv
  BY LockInit
<1>2. IInv /\ [Next]_vars => IInv'
  BY LockStep
<1>. DEFINE Stays(p) == \E q \in Procs \ {p} : pc[q] \in {"holding", "unlink", "leaving"}
            NotBarred == \A p \in Procs : At(p, "judge") /\ At(p, "leaving")' => Stays(p)
<1>3. ASSUME IInv, [Next]_vars PROVE [NotBarred]_vars
  <2>. SUFFICES ASSUME NEW p \in Procs, At(p, "judge"), At(p, "leaving")' PROVE Stays(p)
    OBVIOUS
  <2>. USE <1>3 DEF IInv, TypeOK, At, Goto
  <2>1. Refuse(p)
    <3>1. PICK q \in Procs :
            Start(q) \/ Acquire(q) \/ ReadOwn(q) \/ Unlink(q) \/ Exit(q) \/ Kill(q)
      BY DEF Next, vars
    <3>2. ~(Start(q) \/ ReadOwn(q) \/ Exit(q) \/ Kill(q))
      BY <3>1 DEF Start, ReadOwn, Exit, Kill
    <3>3. ~Unlink(q)
      BY <3>1 DEF Unlink, Writing
    <3>4. ~(Create(q) \/ WritePayload(q) \/ ReadSettled(q) \/ TakeOver(q) \/ Truncate(q))
      BY DEF Create, WritePayload, ReadSettled, TakeOver, Truncate, Writing
    <3>. QED
      BY <3>1, <3>2, <3>3, <3>4 DEF Acquire, Refuse
  <2>2. seen[p] \in Procs \ {p} /\ pc[seen[p]] # "dead"
    BY <2>1 DEF Refuse, ForeignLock, PidAlive
  <2>3. pc[seen[p]] \notin Acquiring
    BY <2>2 DEF OneAcquirer, Acquiring
  <2>. QED
    BY <2>2, <2>3 DEF Places
<1>. QED
  BY <1>1, <1>2, <1>3, PTL DEF Spec, NeverLockedOut
=============================================================================
