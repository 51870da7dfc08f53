------------------------------- MODULE MyThread --------------------------------
(***************************************************************************)
(* The threads that lab1/src/6/my_thread makes with clone, and the main of *)
(* lab1/src/6/a.c: it creates the threads, sleeps, prints g and clears     *)
(* them.  main is one thread, so mythread_create and clear are one action  *)
(* each.                                                                   *)
(*                                                                         *)
(* A mapping is a region of two parts: its first STACK_SIZE bytes ("low")  *)
(* and its last GUARD_SIZE bytes ("top"), where a stack begins.  threads   *)
(* is an array on main's stack: is_finished holds any value until somebody *)
(* writes it, and guard, until it is set, is taken to be no mapping's      *)
(* address.  malloc is taken to succeed.                                   *)
(***************************************************************************)
EXTENDS Integers, FiniteSets

CONSTANTS N,        \* threads that main creates
          Regions,  \* addresses mmap may return
          NoRegion

ASSUME NAssumption == N \in Nat \ {0}
ASSUME NoRegionAssumption == NoRegion \notin Regions

Threads == 1..N
Whole == {"low", "top"}

VARIABLES
  mapped,       \* per region: its parts that are mapped
  guard,        \* per thread: thread->guard, which also tells its stack
  finished,     \* per thread: thread->is_finished
  pc,           \* per thread
  reg, g,       \* per thread: the register of g++; the global g
  next,         \* main: the thread its loop is at
  phase,        \* main: "create", "clear" or "end"
  refused,      \* threads that clear returned -1 for
  dead,         \* a thread ran on an unmapped stack, and the process died
  junk,         \* history: is_finished before anything wrote it
  halved        \* history: regions that a failed mprotect gave back in part

cloneVars == <<mapped, guard, finished, pc, reg, g, next, phase, refused, dead, junk, halved>>

\* On its stack, in wrapper or below it; "exit" is what clone does when wrapper
\* has returned.
Running == {"load", "store", "free", "flag", "exit"}

CloneTypeOK ==
  /\ mapped \in [Regions -> SUBSET Whole]
  /\ guard \in [Threads -> Regions \cup {NoRegion}]
  /\ finished \in [Threads -> BOOLEAN]
  /\ pc \in [Threads -> Running \cup {"none", "gone"}]
  /\ reg \in [Threads -> 0..N]
  /\ g \in 0..N
  /\ next \in 1..(N + 1)
  /\ phase \in {"create", "clear", "end"}
  /\ refused \subseteq Threads

CloneInit ==
  /\ mapped = [r \in Regions |-> {}]
  /\ guard = [i \in Threads |-> NoRegion]
  /\ finished \in [Threads -> BOOLEAN]
  /\ pc = [i \in Threads |-> "none"]
  /\ reg = [i \in Threads |-> 0]
  /\ g = 0
  /\ next = 1
  /\ phase = "create"
  /\ refused = {}
  /\ dead = FALSE
  /\ junk = finished
  /\ halved = {}

-----------------------------------------------------------------------------
(* main: mythread_create(&threads[next], func, &args[next]) *)

Creating == phase = "create" /\ next <= N /\ next' = next + 1

\* mmap, mprotect and clone succeed.
Create(r) ==
  /\ Creating
  /\ mapped[r] = {}
  /\ mapped' = [mapped EXCEPT ![r] = Whole]
  /\ guard' = [guard EXCEPT ![next] = r]
  /\ pc' = [pc EXCEPT ![next] = "load"]
  /\ UNCHANGED <<finished, reg, g, phase, refused, dead, junk, halved>>

MmapFails ==
  /\ Creating
  /\ UNCHANGED <<mapped, guard, finished, pc, reg, g, phase, refused, dead, junk, halved>>

\* The region is given back but for its last GUARD_SIZE bytes.
MprotectFails(r) ==
  /\ Creating
  /\ mapped[r] = {}
  /\ mapped' = [mapped EXCEPT ![r] = {"top"}]
  /\ halved' = halved \cup {r}
  /\ UNCHANGED <<guard, finished, pc, reg, g, phase, refused, dead, junk>>

\* Mutant: the region of a thread that was not started is kept.
CloneFailsKept(r) ==
  /\ Creating
  /\ mapped[r] = {}
  /\ mapped' = [mapped EXCEPT ![r] = Whole]
  /\ UNCHANGED <<guard, finished, pc, reg, g, phase, refused, dead, junk, halved>>

\* The region is given back, but thread->guard goes on naming it.
CloneFails(r) ==
  /\ Creating
  /\ mapped[r] = {}
  /\ guard' = [guard EXCEPT ![next] = r]
  /\ UNCHANGED <<mapped, finished, pc, reg, g, phase, refused, dead, junk, halved>>

\* sleep(7) ends and g is printed, whatever the threads have done by then.
Sleep ==
  /\ phase = "create" /\ next = N + 1
  /\ phase' = "clear"
  /\ next' = 1
  /\ UNCHANGED <<mapped, guard, finished, pc, reg, g, refused, dead, junk, halved>>

\* Mutant: clear does not look at is_finished.
ClearUnchecked ==
  /\ phase = "clear" /\ next <= N
  /\ next' = next + 1
  /\ mapped' = [r \in Regions |-> IF r = guard[next] THEN {} ELSE mapped[r]]
  /\ UNCHANGED <<guard, finished, pc, reg, g, phase, refused, dead, junk, halved>>

\* clear(&threads[next]): munmap of nothing succeeds, too.
Clear ==
  /\ phase = "clear" /\ next <= N
  /\ next' = next + 1
  /\ IF finished[next]
       THEN /\ mapped' = [r \in Regions |-> IF r = guard[next] THEN {} ELSE mapped[r]]
            /\ UNCHANGED refused
       ELSE /\ refused' = refused \cup {next}
            /\ UNCHANGED mapped
  /\ UNCHANGED <<guard, finished, pc, reg, g, phase, dead, junk, halved>>

\* All are cleared; main sleeps on.
EndOfMain ==
  /\ phase = "clear" /\ next = N + 1
  /\ phase' = "end"
  /\ UNCHANGED <<mapped, guard, finished, pc, reg, g, next, refused, dead, junk, halved>>

Main ==
  \/ MmapFails \/ Sleep \/ Clear \/ EndOfMain
  \/ \E r \in Regions : Create(r) \/ MprotectFails(r) \/ CloneFails(r)

-----------------------------------------------------------------------------
(* A thread: func, then the rest of wrapper *)

OnStack(i) == pc[i] \in Running /\ mapped[guard[i]] = Whole

Goto(i, from, to) == OnStack(i) /\ pc[i] = from /\ pc' = [pc EXCEPT ![i] = to]

Load(i) ==
  /\ Goto(i, "load", "store")
  /\ reg' = [reg EXCEPT ![i] = g]
  /\ UNCHANGED <<mapped, guard, finished, g, next, phase, refused, dead, junk, halved>>

Store(i) ==
  /\ Goto(i, "store", "free")
  /\ g' = reg[i] + 1
  /\ UNCHANGED <<mapped, guard, finished, reg, next, phase, refused, dead, junk, halved>>

\* func has returned; free(data).
Free(i) ==
  /\ Goto(i, "free", "flag")
  /\ UNCHANGED <<mapped, guard, finished, reg, g, next, phase, refused, dead, junk, halved>>

\* *flag = 1.
Flag(i) ==
  /\ Goto(i, "flag", "exit")
  /\ finished' = [finished EXCEPT ![i] = TRUE]
  /\ UNCHANGED <<mapped, guard, reg, g, next, phase, refused, dead, junk, halved>>

\* wrapper returns on its stack, and clone ends the thread.
Exit(i) ==
  /\ Goto(i, "exit", "gone")
  /\ UNCHANGED <<mapped, guard, finished, reg, g, next, phase, refused, dead, junk, halved>>

\* The next access to the stack is SIGSEGV, for the whole process.
Die(i) ==
  /\ pc[i] \in Running /\ ~OnStack(i)
  /\ dead' = TRUE
  /\ UNCHANGED <<mapped, guard, finished, pc, reg, g, next, phase, refused, junk, halved>>

Thread(i) == Load(i) \/ Store(i) \/ Free(i) \/ Flag(i) \/ Exit(i) \/ Die(i)

Over ==
  /\ dead \/ (phase = "end" /\ \A i \in Threads : pc[i] \notin Running)
  /\ UNCHANGED cloneVars

CloneNext == (~dead /\ (Main \/ \E i \in Threads : Thread(i))) \/ Over

CloneSpec == CloneInit /\ [][CloneNext]_cloneVars

-----------------------------------------------------------------------------
\* clear takes no stack away from a thread that has yet to write its flag ("thread
\* is still running! can't munmap its stack", my_thread.c:61), unless
\* is_finished was junk: the thread's own, or that of a thread whose clone had
\* failed and whose region the thread was then given.  After the flag nothing
\* is promised: the last step of wrapper may lose its stack (my_thread.c:21).
StackKept ==
  /\ CloneTypeOK
  /\ \A i \in Threads :
       pc[i] \in Running \ {"exit"} /\ ~OnStack(i) =>
         \E j \in Threads : junk[j] /\ guard[j] = guard[i]

\* At the end of main only these mappings are left: those of threads that had
\* not finished when they were cleared, and the last pages of regions whose
\* mprotect failed.
OnlyRefusedLeft ==
  phase = "end" =>
    \A r \in Regions : mapped[r] # {} =>
      \/ \E i \in refused : guard[i] = r
      \/ r \in halved /\ mapped[r] = {"top"}

================================================================================
