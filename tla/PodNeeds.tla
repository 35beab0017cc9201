------------------------------ MODULE PodNeeds ------------------------------
(***************************************************************************)
(* internal/scheduler, requirements.go and daemonset.go: what a pod and    *)
(* the DaemonSets of a node need, and how many pods a node type takes.  A  *)
(* pod is a record of its main and its init containers, sequences of       *)
(* requests for cpu, mem and gpu; mem stands for memory and storage, which *)
(* are treated alike.                                                      *)
(***************************************************************************)
EXTENDS Integers, SequencesExt

\* The main containers run together.
Summed(containers, d) == FoldLeft(LAMBDA sum, r : sum + r[d], 0, containers)

\* The init containers run one after the other.
RaisedBy(least, containers, d) ==
    FoldLeft(LAMBDA top, r : IF r[d] > top THEN r[d] ELSE top, least, containers)

\* Mutant: the init containers are not looked at.
MainsOnly(pod) == [d \in {"cpu", "mem", "gpu"} |-> Summed(pod.main, d)]

\* GetPodRequirements: the GPUs of init containers do not count.
GetPodRequirements(pod) ==
    [cpu |-> RaisedBy(Summed(pod.main, "cpu"), pod.init, "cpu"),
     mem |-> RaisedBy(Summed(pod.main, "mem"), pod.init, "mem"),
     gpu |-> Summed(pod.main, "gpu")]

\* getDaemonSetPodOverhead, for one resource.
PodOverhead(ds, d) ==
    LET mains == Summed(ds.main, d)
        inits == RaisedBy(0, ds.init, d)
    IN  IF inits > mains THEN inits ELSE mains

\* GetDaemonSetOverhead: of a node that runs all the DaemonSets.
GetDaemonSetOverhead(sets) ==
    [d \in {"cpu", "mem"} |-> FoldLeft(LAMBDA sum, ds : sum + PodOverhead(ds, d), 0, sets)]

\* CanFit: one pod on an empty node.
CanFit(node, r) == /\ node.cpu >= r.cpu /\ node.mem >= r.mem
                   /\ r.gpu # 0 => node.gpu >= r.gpu

\* What is left of a node that takes another pod.
Less(node, r) == [cpu |-> node.cpu - r.cpu, mem |-> node.mem - r.mem,
                  gpu |-> node.gpu - r.gpu]

\* Mutant: pods are counted until one does not fit.
CountUntil(node, reqs) ==
    Max({n \in 0..Len(reqs) :
            CanFit(node, [d \in {"cpu", "mem", "gpu"} |-> Summed(SubSeq(reqs, 1, n), d)])})

\* CanFitMultiple: pods that do not fit are passed over.
CanFitMultiple(node, reqs) ==
    LET taken == FoldLeft(LAMBDA t, r : IF CanFit(t.left, r)
                                        THEN [left |-> Less(t.left, r), count |-> t.count + 1]
                                        ELSE t,
                          [left |-> node, count |-> 0], reqs)
    IN  taken.count
=============================================================================
