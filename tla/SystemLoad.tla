----------------------------- MODULE SystemLoad ------------------------------
(***************************************************************************)
(* The arithmetic of the systemload checker (pkg/checkers/systemload): two *)
(* reads of tick counters, a second apart, and the memory figures.         *)
(*                                                                         *)
(* A load is a record of what the reads give:                              *)
(*   memory         available and total                                    *)
(*   before, after  the counters of /proc/stat: idle, busy (all the others *)
(*                  together) and guest, which the kernel counts in busy   *)
(*                  (user time) already                                    *)
(*   processes      for each process with a name of interest, the ticks it *)
(*                  had used before and after, and whether it is gone      *)
(* Percentages are compared without dividing; for a total of 0 the code's  *)
(* infinite and NaN percentages compare the same way.                      *)
(***************************************************************************)
EXTENDS Integers, FiniteSets, Sequences

CONSTANT Modulus    \* of a counter, an uint64: 2 ^ 64

ASSUME ModulusAssumption == Modulus \in Nat \ {0}

(* Unsigned subtraction and multiplication. *)
Delta(later, earlier) == (later - earlier) % Modulus
Hundredfold(n) == (100 * n) % Modulus

(* getTotalTime: guest time is added once more. *)
getTotalTime(stat) == stat.idle + stat.busy + stat.guest

(* 100 - 100 * available / total > VMMemoryPercentageLimit *)
MemoryTooHigh(load) == Hundredfold(load.memory.available) < 10 * load.memory.total

DeltaIdle(load) == Delta(load.after.idle, load.before.idle)

(* Mutant: the total since the machine was booted. *)
DeltaTotal_SinceBoot(load) == getTotalTime(load.after)

DeltaTotal(load) == Delta(getTotalTime(load.after), getTotalTime(load.before))

(* 100 - 100 * idle / total > VMCPUPercentageLimit *)
CPUTooHigh(load) == Hundredfold(DeltaIdle(load)) < 20 * DeltaTotal(load)

(* More than half of all that the machine has, or than 80 % of a core; a core
   has 100 ticks (ClkTck) in the second (CPUSpan) that the reads are apart. *)
ProcessTooHigh(load, p) ==
    /\ ~load.processes[p].gone
    /\ LET used == Delta(load.processes[p].after, load.processes[p].before)
       IN 100 * used > 50 * DeltaTotal(load) \/ used > 80

(* How many results the checker has, each of them failed. *)
One(condition) == IF condition THEN 1 ELSE 0
MemoryResults(load) == One(MemoryTooHigh(load))
LoadResults(load) ==
    MemoryResults(load) + One(CPUTooHigh(load))
        + Cardinality({p \in DOMAIN load.processes : ProcessTooHigh(load, p)})

-----------------------------------------------------------------------------
(* The counters go forward and nothing is too large for an uint64. *)
Forward(load) ==
    LET Fits(n) == n \in Nat /\ 100 * n < Modulus
        Grows(p) == \/ load.processes[p].gone
                    \/ /\ Fits(load.processes[p].before) /\ Fits(load.processes[p].after)
                       /\ load.processes[p].before <= load.processes[p].after
    IN /\ \A c \in {"idle", "busy", "guest"} : Fits(load.before[c]) /\ Fits(load.after[c]) /\ load.before[c] <= load.after[c]
       /\ Fits(getTotalTime(load.after))
       /\ Fits(load.memory.available) /\ load.memory.total \in Nat
       /\ \A p \in DOMAIN load.processes : Grows(p)

(* What really was used between the reads. *)
Idle(load) == load.after.idle - load.before.idle
Used(load, p) == load.processes[p].after - load.processes[p].before
Total(load) == Idle(load) + load.after.busy - load.before.busy

(* As long as the counters go forward, a machine that is busier than the limit
   is reported, guests or not; one that is not is reported only if it has
   guests, whose time is counted twice (systemload.go:138). Without guests the
   processes reported are exactly those above their limits. *)
LoadIsJudged(load) ==
    Forward(load) =>
        /\ 100 * Idle(load) < 20 * Total(load) => CPUTooHigh(load)
        /\ load.before.guest = load.after.guest =>
               /\ CPUTooHigh(load) => 100 * Idle(load) < 20 * Total(load)
               /\ \A p \in DOMAIN load.processes : ProcessTooHigh(load, p) <=>
                      /\ ~load.processes[p].gone
                      /\ 100 * Used(load, p) > 50 * Total(load) \/ Used(load, p) > 80
=============================================================================
