------------------------------ MODULE NicBinding ------------------------------
(***************************************************************************)
(* SingleQueueRxThread (capture.py 749-1051): before it opens its socket,  *)
(* a capture process reduces its interface to one receive queue and binds  *)
(* the queue's interrupt to one CPU, so that frames arrive in wire order.  *)
(* The tables of bindings are module globals: each capture is a process    *)
(* forked from the service and has its own copy of them.  A process ends   *)
(* with its copy; what it set on the machine stays.                        *)
(***************************************************************************)
EXTENDS Naturals

CONSTANTS
  Captures,  \* capture processes; one that has ended may be forked anew
  Nics,
  CpuCount,  \* os.cpu_count()
  Server,    \* the service's own process
  NoNic

VARIABLES
  pc,
  eth,       \* interface of the capture
  cpu,       \* target_cpu; `crowded` when there was no CPU to choose
  bound,     \* _nic_cpu_binding of each process, as pairs
  allocated, \* _allocated_cpus of each process
  queues,    \* interfaces that have one receive queue only
  affinity,  \* CPUs that may take an interface's receive interrupt
  rps,       \* interfaces whose frames the kernel hands to further CPUs
  irqs       \* whose interrupt the look-up for an interface finds

machine == <<queues, affinity, rps, irqs>>
tables  == <<bound, allocated>>
vars    == <<pc, eth, cpu, tables, machine>>

Cpus      == 0..CpuCount - 1
Processes == Captures \cup {Server}

\* What the variables hold.
TypeOK ==
  /\ pc \in [Captures -> {"none", "check", "look", "shrink", "bind", "pick", "write", "note",
                          "rps", "ready"}]
  /\ eth \in [Captures -> Nics]
  /\ cpu \in [Captures -> [at : Cpus, crowded : BOOLEAN]]
  /\ bound \in [Processes -> SUBSET (Nics \X Cpus)]
  /\ allocated \in [Processes -> SUBSET Cpus]
  /\ queues \subseteq Nics /\ rps \subseteq Nics
  /\ affinity \in [Nics -> SUBSET Cpus]
  /\ irqs \in [Nics -> Nics \cup {NoNic}]

\* msi_irqs are the interface's own.  Without them the first line of /proc/interrupts
\* that has its name, or "mlx5", is taken: it may be another interface's, which then
\* finds it as well.  Some have none.
Init ==
  /\ pc = [c \in Captures |-> "none"]
  /\ eth \in [Captures -> Nics]
  /\ cpu = [c \in Captures |-> [at |-> 0, crowded |-> FALSE]]
  /\ bound = [p \in Processes |-> {}]
  /\ allocated = [p \in Processes |-> {}]
  /\ queues \in SUBSET Nics /\ rps \in SUBSET Nics
  /\ affinity = [n \in Nics |-> Cpus]
  /\ irqs \in {f \in [Nics -> Nics \cup {NoNic}] :
                 \A n \in Nics : f[n] # NoNic => f[f[n]] = f[n]}

-----------------------------------------------------------------------------
Goto(c, label) == pc' = [pc EXCEPT ![c] = label]

\* tcpdump_start forks, with single_queue on by default.
Fork(c) ==
  /\ pc[c] = "none"
  /\ Goto(c, "check")
  /\ \E n \in Nics : eth' = [eth EXCEPT ![c] = n]
  /\ bound' = [bound EXCEPT ![c] = bound[Server]]
  /\ allocated' = [allocated EXCEPT ![c] = allocated[Server]]
  /\ UNCHANGED <<cpu, machine>>

\* An interface that has its CPU keeps it.
Check(c) ==
  /\ pc[c] = "check"
  /\ Goto(c, IF \E b \in bound[c] : b[1] = eth[c] THEN "ready" ELSE "look")
  /\ UNCHANGED <<eth, cpu, tables, machine>>

\* A queue count that cannot be read counts as one.  The capture goes on, with the
\* interface as it is, when the set-up raises.
Look(c) ==
  /\ pc[c] = "look"
  /\ \/ Goto(c, "bind")
     \/ eth[c] \notin queues /\ Goto(c, "shrink")
     \/ Goto(c, "ready")
  /\ UNCHANGED <<eth, cpu, tables, machine>>

\* ethtool -L, twice if need be; what it returns is not looked at.
Shrink(c) ==
  /\ pc[c] = "shrink"
  /\ Goto(c, "bind")
  /\ queues' \in {queues, queues \cup {eth[c]}}
  /\ UNCHANGED <<eth, cpu, tables, affinity, rps, irqs>>

Bind(c) ==
  /\ pc[c] = "bind"
  /\ Goto(c, IF irqs[eth[c]] = NoNic THEN "ready" ELSE "pick")
  /\ UNCHANGED <<eth, cpu, tables, machine>>

Lowest(s) == CHOOSE x \in s : \A y \in s : x <= y

\* The first CPU but 0 that is neither allocated nor busy; the last when there is none.
Pick(c) ==
  /\ pc[c] = "pick"
  /\ Goto(c, "write")
  /\ \E busy \in SUBSET Cpus :
       LET idle == Cpus \ (allocated[c] \cup busy \cup {0})
       IN  cpu' = [cpu EXCEPT ![c] =
                     [at |-> IF idle = {} THEN CpuCount - 1 ELSE Lowest(idle),
                      crowded |-> idle = {}]]
  /\ UNCHANGED <<eth, tables, machine>>

\* The affinity is written by a shell whose result is only logged.
Write(c) ==
  /\ pc[c] = "write"
  /\ Goto(c, "note")
  /\ affinity' \in {affinity, [affinity EXCEPT ![irqs[eth[c]]] = {cpu[c].at}]}
  /\ UNCHANGED <<eth, cpu, tables, queues, rps, irqs>>

Note(c) ==
  /\ pc[c] = "note"
  /\ Goto(c, "rps")
  /\ bound' = [bound EXCEPT ![c] = {b \in @ : b[1] # eth[c]} \cup {<<eth[c], cpu[c].at>>}]
  /\ allocated' = [allocated EXCEPT ![c] = @ \cup {cpu[c].at}]
  /\ UNCHANGED <<eth, cpu, machine>>

Disable(c) ==
  /\ pc[c] = "rps"
  /\ Goto(c, "ready")
  /\ rps' \in {rps, rps \ {eth[c]}}
  /\ UNCHANGED <<eth, cpu, tables, queues, affinity, irqs>>

\* Nothing is set back.
End(c) ==
  /\ pc[c] # "none"
  /\ Goto(c, "none")
  /\ cpu' = [cpu EXCEPT ![c] = [at |-> 0, crowded |-> FALSE]]
  /\ bound' = [bound EXCEPT ![c] = {}]
  /\ allocated' = [allocated EXCEPT ![c] = {}]
  /\ UNCHANGED <<eth, machine>>

Step(c) ==
  \/ Check(c) \/ Look(c) \/ Shrink(c) \/ Bind(c) \/ Pick(c) \/ Write(c) \/ Note(c) \/ Disable(c)

Next == \E c \in Captures : Fork(c) \/ Step(c) \/ End(c)

Spec == Init /\ [][Next]_vars

-----------------------------------------------------------------------------
\* _pick_target_cpu "excludes the CPUs allocated already": when a capture takes a CPU,
\* it is none that a capture still running has taken for another interface, as long as
\* there was one to choose.
AllocatedIsAvoided ==
  \A c, d \in Captures :
     /\ pc[c] = "write" /\ ~cpu[c].crowded
     /\ eth[c] # eth[d]
     => <<eth[d], cpu[c].at>> \notin bound[d]

=============================================================================
