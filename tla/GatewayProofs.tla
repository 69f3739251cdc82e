---------------------------- MODULE GatewayProofs ----------------------------
(***************************************************************************)
(* Proofs about the gateway's program as a whole.  First Upgrade, for any  *)
(* number of worker processes and of upgrades, with any step of an upgrade *)
(* failing and the worker, the daemon and the service ending at any time.  *)
(* Then the functions that GatewayFunctions calls, for every input: what a *)
(* loop or a recursion of theirs returns is proved by induction, which the *)
(* first lemmas of that part derive from the well-ordering of the natural  *)
(* numbers.                                                                *)
(***************************************************************************)
EXTENDS Upgrade, GatewayFunctions, FiniteSetTheorems, SequenceTheorems, WellFoundedInduction, TLAPS

(* Upgrade.                                                                 *)

\* Before an upgrade has a file, and while it has one.
Early == {"new", "named", "renamed"}
Made == {"created", "cut", "copied", "done"}

\* Upgrades that overlap take turns at bin: one at most has renamed it and not
\* created its own yet, and nobody gives the name away meanwhile.
AloneInv ==
    /\ \A k \in Upgrades : At(k, "renamed") /\ path[k] = bin => dir[bin] = None
    /\ \A j, k \in Upgrades :
          At(j, "renamed") /\ At(k, "renamed") /\ path[j] = bin /\ path[k] = bin => j = k

\* What bin is during the upgrades.  Only create(k) gives it file k, and the
\* installed binary does not come back.
NameInv ==
    /\ dir[bin] = None => \E k \in Upgrades : upc[k] \in {"renamed", "failed"} /\ path[k] = bin
    /\ dir[bin] = 0 => /\ last = bin
                       /\ \A k \in Upgrades : /\ upc[k] \in {"new", "named", "failed"}
                                              /\ At(k, "named") => path[k] = bin
    /\ \A f \in Upgrades : dir[bin] = f =>
          /\ path[f] = bin /\ out[f] = f /\ upc[f] \in {"created", "copied", "done", "failed"}
          /\ upc[f] \in {"copied", "done"} => file[f].whole
          /\ upc[f] = "done" => file[f].exec

\* A file has one name at most, and none before it is created.
FilesInv ==
    /\ \A m, n \in Names : dir[m] = dir[n] /\ dir[m] # None => m = n
    /\ \A k \in Upgrades : upc[k] \in Early => out[k] = k /\ \A n \in Names : dir[n] # k

\* An upgrade that has not ended is that of a worker that runs the installed binary.
ByInv ==
    \A k \in Upgrades : upc[k] \notin Done =>
        by[k] \in Workers /\ worker[by[k]] # "none" /\ image[by[k]] = 0

\* As long as no upgrade has renamed anything but the binary of its worker, that
\* binary is under the highest name in use, and every upgrade has a lower name of
\* its own, which is free or its own file's.
SoundInv ==
    ~stale =>
        /\ dir[last] = 0 /\ file[0].whole /\ file[0].exec
        /\ \A n \in Names : n > last => dir[n] = None
        /\ \A k \in Upgrades :
              /\ upc[k] \in Made \cup {"renamed"} => path[k] < last
              /\ upc[k] = "renamed" => dir[path[k]] = None
              /\ upc[k] \in Made => dir[path[k]] = k /\ out[k] = k /\ upc[k] # "cut"
              /\ upc[k] \in {"copied", "done"} => file[k].whole
              /\ upc[k] = "done" => file[k].exec
        /\ \A j, k \in Upgrades :
              upc[j] \in Made \cup {"renamed"} /\ upc[k] \in Made \cup {"renamed"} /\ path[j] = path[k]
                  => j = k

\* Beside those that were started after Stop had looked for one, the only worker
\* is the one that run waits for, and none is left once Stop has killed it.
WorkerInv ==
    /\ \A w \in Workers \ late : worker[w] # "none" => dpc = "wait" /\ proc = w
    /\ stop = "killed" => \A w \in Workers \ late : worker[w] = "none"

DirInv == AloneInv /\ NameInv /\ FilesInv
Inv == TypeOK /\ DirInv /\ ByInv /\ SoundInv /\ WorkerInv

-----------------------------------------------------------------------------
LEMMA Constants ==
    /\ 0 \in Files /\ 0 \notin Upgrades /\ Upgrades \subseteq Files
    /\ Files = Upgrades \cup {0}
    /\ None \notin Files /\ None \notin Workers
    /\ bin \in Names /\ Names \subseteq Nat /\ \A n \in Names : n + 1 # bin
  BY MaxUpgradesAssumption, NoneAssumption DEF Upgrades, Files, Names, bin

\* The steps of an upgrade, as upc has them.
Steps == Done \cup {"named", "renamed", "created", "cut", "copied"}

\* Upgrade k goes to l, and no other one moves.
LEMMA ToMoves ==
    ASSUME TypeOK, NEW k \in Upgrades, NEW l \in Steps, To(k, l)
    PROVE  /\ upc' \in [Upgrades -> Steps]
           /\ upc'[k] = l
           /\ \A j \in Upgrades \ {k} : upc'[j] = upc[j]
  BY DEF TypeOK, To, Steps, Done

\* Upgrades fail, with their locals, or are left alone.
Failing ==
    \A k \in Upgrades :
        \/ upc'[k] = upc[k] /\ path'[k] = path[k] /\ out'[k] = out[k]
        \/ upc'[k] = "failed" /\ path'[k] = bin /\ out'[k] = k

LEMMA DropsMoves ==
    ASSUME TypeOK, NEW T, Drops(T)
    PROVE  /\ upc' \in [Upgrades -> Steps] /\ by' \in [Upgrades -> Workers \cup {None}]
           /\ path' \in [Upgrades -> Names] /\ out' \in [Upgrades -> Files]
           /\ Failing
           /\ \A k \in Upgrades : upc'[k] \notin Done => k \notin T /\ upc'[k] = upc[k] /\ by'[k] = by[k]
  BY Constants DEF TypeOK, Drops, Failing, Steps, Done

\* The end of a worker makes its upgrades fail, and does nothing else to them.
LEMMA EndsMoves ==
    ASSUME TypeOK, NEW w \in Workers, Ends(w)
    PROVE  /\ worker' \in [Workers -> {"none", "boot", "up", "stuck"}]
           /\ image' \in [Workers -> Files] /\ late' = late \ {w}
           /\ worker'[w] = "none"
           /\ \A v \in Workers \ {w} : worker'[v] = worker[v] /\ image'[v] = image[v]
           /\ upc' \in [Upgrades -> Steps] /\ by' \in [Upgrades -> Workers \cup {None}]
           /\ path' \in [Upgrades -> Names] /\ out' \in [Upgrades -> Files]
           /\ Failing
           /\ \A k \in Upgrades : upc'[k] \notin Done => by[k] # w /\ upc'[k] = upc[k] /\ by'[k] = by[k]
  <1>1. Drops({k \in Upgrades : by[k] = w})
    BY DEF Ends
  <1>2. /\ upc' \in [Upgrades -> Steps] /\ by' \in [Upgrades -> Workers \cup {None}]
        /\ path' \in [Upgrades -> Names] /\ out' \in [Upgrades -> Files]
        /\ Failing
        /\ \A k \in Upgrades : upc'[k] \notin Done => by[k] # w /\ upc'[k] = upc[k] /\ by'[k] = by[k]
    BY <1>1, DropsMoves
  <1>3. QED
    BY <1>2, Constants DEF Ends, TypeOK

-----------------------------------------------------------------------------
(* Type correctness.                                                        *)

LEMMA TypeInit == Init => TypeOK
  <1> SUFFICES ASSUME Init PROVE TypeOK
    OBVIOUS
  <1>1. file \in [Files -> [whole : BOOLEAN, exec : BOOLEAN]]
    <2>1. \A f \in Files : (f = 0) \in BOOLEAN
      OBVIOUS
    <2>2. \A f \in Files : [whole |-> f = 0, exec |-> f = 0] \in [whole : BOOLEAN, exec : BOOLEAN]
      BY <2>1
    <2>3. QED
      BY <2>2 DEF Init
  <1>2. /\ dir \in [Names -> Files \cup {None}] /\ last \in Names
        /\ path \in [Upgrades -> Names] /\ out \in [Upgrades -> Files]
    BY Constants DEF Init
  <1>3. QED
    BY <1>1, <1>2, Constants DEF Init, TypeOK, Done

LEMMA TypeStep == TypeOK /\ ByInv /\ [Next]_vars => TypeOK'
  <1> SUFFICES ASSUME TypeOK, ByInv, [Next]_vars PROVE TypeOK'
    OBVIOUS
  <1> USE DEF Done
  <1>1. CASE daemonStart \/ testStopped \/ startWorkerFails \/ wait \/ sleep \/ stopSet \/ daemonExit
    BY <1>1 DEF daemonStart, testStopped, startWorkerFails, wait, sleep, stopSet, daemonExit,
                TypeOK, fileVars
  <1>2. ASSUME NEW w \in Workers, startWorker(w) PROVE TypeOK'
    <2>1. dir[bin] \in Files
      BY <1>2, Constants DEF startWorker, TypeOK
    <2>2. QED
      BY <1>2, <2>1 DEF startWorker, TypeOK, fileVars
  <1>3. CASE stopKill
    <2>1. CASE proc = None
      BY <1>3, <2>1 DEF stopKill, TypeOK, fileVars
    <2>2. CASE proc # None
      <3>1. proc \in Workers /\ Ends(proc)
        BY <1>3, <2>2 DEF stopKill, TypeOK
      <3>2. QED
        BY <3>1, <1>3, EndsMoves DEF stopKill, TypeOK, fileVars, Steps
    <2>3. QED
      BY <2>1, <2>2
  <1>4. ASSUME NEW w \in Workers, runServes(w) \/ runFails(w) PROVE TypeOK'
    BY <1>4 DEF runServes, runFails, TypeOK, daemonVars, fileVars
  <1>5. ASSUME NEW w \in Workers, workerExit(w) PROVE TypeOK'
    BY <1>5, EndsMoves DEF workerExit, TypeOK, daemonVars, fileVars, Steps
  <1>6. ASSUME NEW k \in Upgrades, NEW w \in Workers, download(k, w) PROVE TypeOK'
    <2>1. upc' \in [Upgrades -> Steps]
      BY <1>6, ToMoves DEF download, Steps
    <2>2. QED
      BY <2>1, <1>6 DEF download, TypeOK, daemonVars, fileVars, Steps
  <1>7. ASSUME NEW k \in Upgrades, rename(k) PROVE TypeOK'
    <2>1. upc' \in [Upgrades -> Steps]
      BY <1>7, ToMoves DEF rename, Steps
    <2>2. stale' \in BOOLEAN
      BY <1>7 DEF rename, TypeOK
    <2>3. dir[path[k]] \in Files /\ path[k] + 1 \in Names
      BY <1>7 DEF rename, TypeOK
    <2>4. dir' \in [Names -> Files \cup {None}] /\ last' \in Names
      BY <1>7, <2>3 DEF rename, TypeOK
    <2>5. QED
      BY <2>1, <2>2, <2>4, <1>7 DEF rename, TypeOK, daemonVars, Steps
  <1>8. ASSUME NEW k \in Upgrades, create(k) PROVE TypeOK'
    <2>1. upc' \in [Upgrades -> Steps]
      BY <1>8, ToMoves DEF create, Steps
    <2>2. dir' \in [Names -> Files \cup {None}] /\ last' \in Names
      BY <1>8, Constants DEF create, TypeOK
    <2>3. QED
      BY <2>1, <2>2, <1>8 DEF create, TypeOK, daemonVars, Steps
  <1>t. ASSUME NEW k \in Upgrades, createTruncates(k) PROVE TypeOK'
    <2>1. upc' \in [Upgrades -> Steps]
      BY <1>t DEF createTruncates, TypeOK, Steps
    <2>2. dir[path[k]] \in Files
      BY <1>t DEF createTruncates, TypeOK
    <2>3. file' \in [Files -> [whole : BOOLEAN, exec : BOOLEAN]] /\ out' \in [Upgrades -> Files]
      BY <1>t, <2>2, ZenonT(60) DEF createTruncates, TypeOK
    <2>4. QED
      BY <2>1, <2>3, <1>t DEF createTruncates, TypeOK, daemonVars, Steps
  <1>9. ASSUME NEW k \in Upgrades, copy(k) PROVE TypeOK'
    <2>1. upc' \in [Upgrades -> Steps]
      BY <1>9, ToMoves DEF copy, Steps
    <2>2. PICK f \in BOOLEAN : file' = [file EXCEPT ![out[k]].whole = f]
      BY <1>9 DEF copy, TypeOK
    <2>3. file' \in [Files -> [whole : BOOLEAN, exec : BOOLEAN]]
      BY <2>2, ZenonT(60) DEF TypeOK
    <2>4. QED
      BY <2>1, <2>3, <1>9 DEF copy, TypeOK, daemonVars, Steps
  <1>10. ASSUME NEW k \in Upgrades, chmod(k) PROVE TypeOK'
    <2>1. upc' \in [Upgrades -> Steps]
      BY <1>10, ToMoves DEF chmod, Steps
    <2>2. file' \in [Files -> [whole : BOOLEAN, exec : BOOLEAN]]
      BY <1>10, ZenonT(60) DEF chmod, TypeOK
    <2>3. out' \in [Upgrades -> Files] /\ by' \in [Upgrades -> Workers \cup {None}]
      BY <1>10, Constants DEF chmod, TypeOK
    <2>4. QED
      BY <2>1, <2>2, <2>3, <1>10 DEF chmod, TypeOK, daemonVars, Steps
  <1>11. ASSUME NEW k \in Upgrades, upgradeFails(k) PROVE TypeOK'
    <2>1. upc' \in [Upgrades -> Steps]
      BY <1>11, DropsMoves DEF upgradeFails
    <2>2. QED
      BY <2>1, <1>11, DropsMoves DEF upgradeFails, TypeOK, daemonVars, Steps
  <1>12. CASE UNCHANGED vars
    BY <1>12 DEF vars, TypeOK
  <1>13. QED
    BY <1>1, <1>2, <1>3, <1>4, <1>5, <1>6, <1>7, <1>8, <1>t, <1>9, <1>10, <1>11, <1>12
       DEF Next, Daemon

-----------------------------------------------------------------------------
(* The names and the files.                                                 *)

\* What an upgrade that fails, or dies with its worker, leaves behind is as good
\* as what it has worked on.
LEMMA FailKeeps ==
    ASSUME DirInv, SoundInv, UNCHANGED <<dir, last, file, stale>>, Failing
    PROVE  DirInv' /\ SoundInv'
  <1> USE DEF At, Early, Made, Failing
  <1>1. AloneInv'
    BY DEF DirInv, AloneInv
  <1>2. NameInv'
    BY DEF DirInv, NameInv
  <1>3. FilesInv'
    BY DEF DirInv, FilesInv
  <1>4. SoundInv'
    BY DEF SoundInv
  <1>5. QED
    BY <1>1, <1>2, <1>3, <1>4 DEF DirInv

\* A worker begins an upgrade, and asks for the name of its binary.
LEMMA NameKeeps ==
    ASSUME TypeOK, DirInv, SoundInv, NEW k \in Upgrades, NEW w \in Workers, download(k, w)
    PROVE  DirInv' /\ SoundInv'
  <1>1. /\ upc[k] = "new" /\ upc'[k] = "named"
        /\ \A j \in Upgrades \ {k} : upc'[j] = upc[j]
    BY ToMoves DEF download, Steps, At
  <1>2. /\ UNCHANGED <<dir, last, file, out, stale>>
        /\ \A j \in Upgrades \ {k} : path'[j] = path[j]
    BY DEF download, TypeOK
  <1>3. path'[k] = last
    BY DEF download, TypeOK
  <1> USE DEF At, Early, Made
  <1>4. AloneInv'
    BY <1>1, <1>2 DEF DirInv, AloneInv
  <1>5. NameInv'
    BY <1>1, <1>2, <1>3, Constants DEF DirInv, NameInv
  <1>6. FilesInv'
    BY <1>1, <1>2 DEF DirInv, FilesInv
  <1>7. SoundInv'
    BY <1>1, <1>2 DEF SoundInv
  <1>8. QED
    BY <1>4, <1>5, <1>6, <1>7 DEF DirInv

LEMMA RenameKeeps ==
    ASSUME TypeOK, DirInv, ByInv, SoundInv, NEW k \in Upgrades, rename(k)
    PROVE  DirInv' /\ SoundInv'
  <1> DEFINE p == path[k]
  <1>1. /\ upc'[k] = "renamed" /\ upc[k] = "named"
        /\ \A j \in Upgrades \ {k} : upc'[j] = upc[j]
    BY ToMoves DEF rename, Steps, At
  <1>2. p \in Names /\ p + 1 \in Names /\ dir[p] # None /\ dir[p] \in Files
    BY DEF rename, TypeOK
  <1>3. /\ dir'[p] = None /\ dir'[p + 1] = dir[p]
        /\ \A n \in Names \ {p, p + 1} : dir'[n] = dir[n]
        /\ last' = IF dir[p] = 0 THEN p + 1 ELSE last
        /\ UNCHANGED <<file, path, out>>
        /\ stale' = (stale \/ dir[p] # image[by[k]])
    BY <1>2, Constants DEF rename, TypeOK
  <1>n. p \in Nat
    BY <1>2, Constants
  <1> HIDE DEF p
  <1>p. p = path[k] /\ p + 1 # bin /\ p # p + 1
    <2>1. p = path[k] /\ p + 1 # bin
      BY <1>2, Constants DEF p
    <2>2. p # p + 1
      BY <1>n
    <2>3. QED
      BY <2>1, <2>2
  <1>b. bin \in Names /\ 0 \in Files /\ None \notin Files
    BY Constants
  <1> USE DEF At, Early, Made
  <1>4. dir'[bin] = IF p = bin THEN None ELSE dir[bin]
    BY <1>3, <1>p, <1>b
  <1>5. AloneInv'
    BY <1>1, <1>2, <1>3, <1>4, <1>p DEF DirInv, AloneInv
  <1>6. NameInv'
    <2>1. CASE p = bin
      BY <1>1, <1>3, <1>4, <1>p, <2>1, Constants DEF NameInv
    <2>2. CASE p # bin
      <3>1. dir[bin] # 0
        BY <1>1, <1>p, <2>2 DEF DirInv, NameInv
      <3>2. QED
        BY <1>1, <1>3, <1>4, <1>p, <2>2, <3>1 DEF DirInv, NameInv
    <2>3. QED
      BY <2>1, <2>2
  <1>7. FilesInv'
    <2>1. \A m, n \in Names : dir[m] = dir[n] /\ dir[m] # None => m = n
      BY DEF DirInv, FilesInv
    <2>2. \A m, n \in Names : dir'[m] = dir'[n] /\ dir'[m] # None => m = n
      BY <1>2, <1>3, <1>p, <2>1
    <2>3. \A j \in Upgrades : upc'[j] \in Early => out[j] = j /\ \A n \in Names : dir[n] # j
      BY <1>1 DEF DirInv, FilesInv
    <2>4. \A j \in Upgrades : upc'[j] \in Early => out'[j] = j /\ \A n \in Names : dir'[n] # j
      BY <1>2, <1>3, <2>3, Constants
    <2>5. QED
      BY <2>2, <2>4 DEF FilesInv
  <1>8. SoundInv'
    <2> SUFFICES ASSUME ~stale' PROVE SoundInv'
      BY DEF SoundInv
    <2>1. ~stale /\ dir[p] = 0
      BY <1>1, <1>3 DEF ByInv, Done, TypeOK
    <2>2. p = last /\ last \in Names
      BY <1>2, <1>b, <2>1 DEF SoundInv, DirInv, FilesInv, TypeOK
    <2>3. last' = p + 1 /\ dir'[p + 1] = 0
      BY <1>3, <2>1
    <2>4. p \in Nat /\ \A n \in Names : n \in Nat
      BY <1>2, Constants
    <2>5. \A n \in Names : n > p + 1 => dir'[n] = None
      BY <1>3, <2>1, <2>2, <2>4 DEF SoundInv
    <2>6. \A j \in Upgrades \ {k} : upc'[j] \in Made \cup {"renamed"} =>
             path[j] \in Names /\ path[j] < p /\ path'[j] = path[j] /\ dir'[path[j]] = dir[path[j]]
      <3> SUFFICES ASSUME NEW j \in Upgrades \ {k}, upc'[j] \in Made \cup {"renamed"}
                   PROVE  path[j] \in Names /\ path[j] < p /\ path'[j] = path[j] /\ dir'[path[j]] = dir[path[j]]
        OBVIOUS
      <3>1. path[j] \in Names /\ path'[j] = path[j]
        BY <1>3 DEF TypeOK
      <3>2. path[j] < p
        BY <1>1, <2>1, <2>2 DEF SoundInv
      <3>3. path[j] \notin {p, p + 1}
        BY <2>4, <3>1, <3>2
      <3>4. QED
        BY <1>3, <3>1, <3>2, <3>3
    <2>7. \A j \in Upgrades : upc'[j] \in Made \cup {"renamed"} => path'[j] < p + 1
      BY <1>3, <1>p, <2>4, <2>6
    <2>8. \A j \in Upgrades : /\ upc'[j] = "renamed" => dir'[path'[j]] = None
                              /\ upc'[j] \in Made => dir'[path'[j]] = j /\ out'[j] = j /\ upc'[j] # "cut"
                              /\ upc'[j] \in {"copied", "done"} => file'[j].whole
                              /\ upc'[j] = "done" => file'[j].exec
      <3>1. ASSUME NEW j \in Upgrades, j # k
            PROVE  /\ upc'[j] = "renamed" => dir'[path'[j]] = None
                   /\ upc'[j] \in Made => dir'[path'[j]] = j /\ out'[j] = j /\ upc'[j] # "cut"
                   /\ upc'[j] \in {"copied", "done"} => file'[j].whole
                   /\ upc'[j] = "done" => file'[j].exec
        BY <1>1, <1>3, <2>1, <2>6, <3>1 DEF SoundInv
      <3>2. dir'[path'[k]] = None
        BY <1>3, <1>p
      <3>3. QED
        BY <1>1, <3>1, <3>2
    <2>9. \A i, j \in Upgrades :
             upc'[i] \in Made \cup {"renamed"} /\ upc'[j] \in Made \cup {"renamed"} /\ path'[i] = path'[j]
                 => i = j
      <3>1. \A j \in Upgrades \ {k} : upc'[j] \in Made \cup {"renamed"} => path'[j] # path'[k]
        BY <1>3, <1>p, <2>4, <2>6
      <3>2. QED
        BY <1>1, <1>3, <2>1, <3>1 DEF SoundInv
    <2>10. file'[0].whole /\ file'[0].exec
      BY <1>3, <2>1 DEF SoundInv
    <2>11. QED
      BY <2>3, <2>5, <2>7, <2>8, <2>9, <2>10 DEF SoundInv
  <1>9. QED
    BY <1>5, <1>6, <1>7, <1>8 DEF DirInv

LEMMA CreateKeeps ==
    ASSUME TypeOK, DirInv, SoundInv, NEW k \in Upgrades, create(k)
    PROVE  DirInv' /\ SoundInv'
  <1> DEFINE p == path[k]
  <1>1. /\ upc'[k] = "created" /\ upc[k] = "renamed"
        /\ \A j \in Upgrades \ {k} : upc'[j] = upc[j]
    BY ToMoves DEF create, Steps, At
  <1>2. p \in Names /\ dir[p] = None
    BY DEF create, TypeOK
  <1>3. /\ dir'[p] = k /\ \A n \in Names \ {p} : dir'[n] = dir[n]
        /\ last' = last
        /\ UNCHANGED <<file, path, out, stale>>
    BY <1>2, Constants DEF create, TypeOK
  <1> HIDE DEF p
  <1>p. p = path[k]
    BY DEF p
  <1>b. bin \in Names /\ k # None /\ k # 0
    BY Constants
  <1> USE DEF At, Early, Made
  <1>4. out[k] = k /\ \A n \in Names : dir[n] # k
    BY <1>1 DEF DirInv, FilesInv
  <1>5. AloneInv'
    BY <1>1, <1>3, <1>p, <1>b DEF DirInv, AloneInv
  <1>6. NameInv'
    <2>1. CASE p = bin
      BY <1>1, <1>3, <1>4, <1>p, <1>b, <2>1 DEF NameInv
    <2>2. CASE p # bin
      <3>1. dir'[bin] = dir[bin] /\ dir[bin] # 0 /\ dir[bin] # k
        BY <1>1, <1>3, <1>4, <1>b, <2>2 DEF DirInv, NameInv
      <3>2. QED
        BY <1>1, <1>3, <1>p, <2>2, <3>1 DEF DirInv, NameInv
    <2>3. QED
      BY <2>1, <2>2
  <1>7. FilesInv'
    BY <1>1, <1>2, <1>3, <1>4 DEF DirInv, FilesInv
  <1>8. SoundInv'
    <2> SUFFICES ASSUME ~stale PROVE SoundInv'
      BY <1>3 DEF SoundInv
    <2>1. last \in Nat /\ last \in Names /\ p \in Nat /\ p < last
      BY <1>1, <1>2, <1>p, Constants DEF SoundInv, TypeOK
    <2>2. dir'[last] = 0 /\ \A n \in Names : n > last => dir'[n] = None
      BY <1>3, <2>1 DEF SoundInv
    <2>3. \A j \in Upgrades \ {k} : upc[j] \in Made \cup {"renamed"} =>
             path[j] \in Names /\ path[j] # p /\ dir'[path[j]] = dir[path[j]]
      BY <1>1, <1>3, <1>p DEF SoundInv, TypeOK
    <2>4. \A j \in Upgrades : /\ upc'[j] \in Made \cup {"renamed"} => path'[j] < last
                              /\ upc'[j] = "renamed" => dir'[path'[j]] = None
                              /\ upc'[j] \in Made => dir'[path'[j]] = j /\ out'[j] = j /\ upc'[j] # "cut"
                              /\ upc'[j] \in {"copied", "done"} => file'[j].whole
                              /\ upc'[j] = "done" => file'[j].exec
      <3>1. ASSUME NEW j \in Upgrades, j # k
            PROVE  /\ upc'[j] \in Made \cup {"renamed"} => path'[j] < last
                   /\ upc'[j] = "renamed" => dir'[path'[j]] = None
                   /\ upc'[j] \in Made => dir'[path'[j]] = j /\ out'[j] = j /\ upc'[j] # "cut"
                   /\ upc'[j] \in {"copied", "done"} => file'[j].whole
                   /\ upc'[j] = "done" => file'[j].exec
        BY <1>1, <1>3, <2>3, <3>1 DEF SoundInv
      <3>2. path'[k] < last /\ dir'[path'[k]] = k /\ out'[k] = k
        BY <1>3, <1>4, <1>p, <2>1
      <3>3. QED
        BY <1>1, <3>1, <3>2
    <2>5. \A i, j \in Upgrades :
             upc'[i] \in Made \cup {"renamed"} /\ upc'[j] \in Made \cup {"renamed"} /\ path'[i] = path'[j]
                 => i = j
      BY <1>1, <1>3 DEF SoundInv
    <2>6. QED
      BY <1>3, <2>2, <2>4, <2>5 DEF SoundInv
  <1>9. QED
    BY <1>5, <1>6, <1>7, <1>8 DEF DirInv

\* A file that is truncated is not bin, and is there only where overlapping
\* upgrades have renamed each other's.
LEMMA TruncateKeeps ==
    ASSUME TypeOK, DirInv, SoundInv, NEW k \in Upgrades, createTruncates(k)
    PROVE  DirInv' /\ SoundInv'
  <1> DEFINE g == dir[path[k]]
  <1>1. upc[k] = "renamed" /\ g # None /\ g \in Files /\ path[k] \in Names
    BY DEF createTruncates, At, TypeOK
  <1>2. /\ upc'[k] = "created"
        /\ \A j \in Upgrades \ {k} : \/ upc'[j] = upc[j]
                                     \/ upc'[j] = "cut" /\ upc[j] = "created" /\ out[j] = g
        /\ UNCHANGED <<dir, last, path, stale>>
        /\ out'[k] = g /\ \A j \in Upgrades \ {k} : out'[j] = out[j]
        /\ \A f \in Files : file'[f].exec = file[f].exec
        /\ \A f \in Files \ {g} : file'[f] = file[f]
    BY <1>1 DEF createTruncates, At, TypeOK
  <1> HIDE DEF g
  <1> USE DEF At, Early, Made
  <1>3. path[k] # bin /\ g # dir[bin]
    BY <1>1, Constants DEF DirInv, AloneInv, FilesInv, g
  <1>4. \A f \in Upgrades : dir[bin] = f => f # k /\ upc'[f] = upc[f] /\ out'[f] = out[f] /\ file'[f] = file[f]
    BY <1>1, <1>2, <1>3, Constants DEF DirInv, NameInv, FilesInv
  <1>5. AloneInv'
    BY <1>2 DEF DirInv, AloneInv
  <1>6. NameInv'
    <2>1. dir[bin] # 0
      BY <1>1 DEF DirInv, NameInv
    <2>2. dir[bin] = None => \E j \in Upgrades : upc'[j] \in {"renamed", "failed"} /\ path[j] = bin
      BY <1>2, <1>3 DEF DirInv, NameInv
    <2>3. QED
      BY <1>2, <1>4, <2>1, <2>2 DEF DirInv, NameInv
  <1>7. FilesInv'
    BY <1>2 DEF DirInv, FilesInv
  <1>8. SoundInv'
    BY <1>1, <1>2 DEF SoundInv, g
  <1>9. QED
    BY <1>5, <1>6, <1>7, <1>8 DEF DirInv

LEMMA CopyKeeps ==
    ASSUME TypeOK, DirInv, SoundInv, NEW k \in Upgrades, copy(k)
    PROVE  DirInv' /\ SoundInv'
  <1>1. /\ upc'[k] = "copied" /\ upc[k] \in {"created", "cut"}
        /\ \A j \in Upgrades \ {k} : upc'[j] = upc[j]
    BY ToMoves DEF copy, Steps, At
  <1>2. /\ UNCHANGED <<dir, last, path, out, stale>>
        /\ upc[k] = "created" => file'[out[k]].whole
        /\ \A f \in Files : file'[f].exec = file[f].exec /\ (file[f].whole => file'[f].whole)
    <2>1. out[k] \in Files
      BY DEF TypeOK
    <2>2. PICK b \in BOOLEAN : /\ file' = [file EXCEPT ![out[k]].whole = b]
                               /\ upc[k] = "created" \/ file[out[k]].whole => b
      BY <2>1 DEF copy, At, TypeOK
    <2>3. QED
      BY <2>1, <2>2 DEF copy, TypeOK
  <1> USE DEF At, Early, Made
  <1>3. AloneInv'
    BY <1>1, <1>2 DEF DirInv, AloneInv
  <1>4. NameInv'
    <2>1. \A f \in Upgrades : dir[bin] = f /\ upc'[f] \in {"copied", "done"} => file'[f].whole
      BY <1>1, <1>2, Constants DEF DirInv, NameInv
    <2>2. \A f \in Upgrades : dir[bin] = f /\ upc'[f] = "done" => file'[f].exec
      BY <1>1, <1>2, Constants DEF DirInv, NameInv
    <2>3. QED
      BY <1>1, <1>2, <2>1, <2>2 DEF DirInv, NameInv
  <1>5. FilesInv'
    BY <1>1, <1>2 DEF DirInv, FilesInv
  <1>6. SoundInv'
    <2> SUFFICES ASSUME ~stale PROVE SoundInv'
      BY <1>2 DEF SoundInv
    <2>1. file'[k].whole
      BY <1>1, <1>2 DEF SoundInv
    <2>2. \A f \in Files : (file[f].whole => file'[f].whole) /\ (file[f].exec => file'[f].exec)
      BY <1>2
    <2>3. QED
      BY <1>1, <1>2, <2>1, <2>2, Constants DEF SoundInv
  <1>7. QED
    BY <1>3, <1>4, <1>5, <1>6 DEF DirInv

LEMMA ChmodKeeps ==
    ASSUME TypeOK, DirInv, SoundInv, NEW k \in Upgrades, chmod(k)
    PROVE  DirInv' /\ SoundInv'
  <1>1. /\ upc'[k] = "done" /\ upc[k] = "copied"
        /\ \A j \in Upgrades \ {k} : upc'[j] = upc[j]
    BY ToMoves DEF chmod, Steps, At, Done
  <1>2. /\ UNCHANGED <<dir, last, path, stale>>
        /\ out'[k] = k /\ \A j \in Upgrades \ {k} : out'[j] = out[j]
        /\ dir[path[k]] \in Files /\ file'[dir[path[k]]].exec
        /\ \A f \in Files : file'[f].whole = file[f].whole /\ (file[f].exec => file'[f].exec)
    <2>1. dir[path[k]] \in Files
      BY DEF chmod, TypeOK
    <2>2. QED
      BY <2>1 DEF chmod, TypeOK
  <1> USE DEF At, Early, Made
  <1>3. AloneInv'
    BY <1>1, <1>2 DEF DirInv, AloneInv
  <1>4. NameInv'
    <2>1. \A f \in Upgrades : dir[bin] = f /\ upc'[f] \in {"copied", "done"} => file'[f].whole
      BY <1>1, <1>2, Constants DEF DirInv, NameInv
    <2>2. \A f \in Upgrades : dir[bin] = f /\ upc'[f] = "done" => file'[f].exec
      BY <1>1, <1>2, Constants DEF DirInv, NameInv
    <2>3. QED
      BY <1>1, <1>2, <2>1, <2>2 DEF DirInv, NameInv
  <1>5. FilesInv'
    BY <1>1, <1>2 DEF DirInv, FilesInv
  <1>6. SoundInv'
    <2> SUFFICES ASSUME ~stale PROVE SoundInv'
      BY <1>2 DEF SoundInv
    <2>1. file'[k].exec
      BY <1>1, <1>2 DEF SoundInv
    <2>2. \A f \in Files : (file[f].whole => file'[f].whole) /\ (file[f].exec => file'[f].exec)
      BY <1>2
    <2>3. QED
      BY <1>1, <1>2, <2>1, <2>2, Constants DEF SoundInv
  <1>7. QED
    BY <1>3, <1>4, <1>5, <1>6 DEF DirInv

LEMMA FileStep == TypeOK /\ DirInv /\ ByInv /\ SoundInv /\ [Next]_vars => DirInv' /\ SoundInv'
  <1> SUFFICES ASSUME TypeOK, DirInv, ByInv, SoundInv, [Next]_vars PROVE DirInv' /\ SoundInv'
    OBVIOUS
  <1>1. CASE UNCHANGED <<fileVars, upc>>
    BY <1>1, FailKeeps DEF fileVars, Failing
  <1>2. CASE stopKill
    <2>1. proc # None => proc \in Workers
      BY DEF TypeOK
    <2>2. QED
      BY <1>2, <2>1, EndsMoves, FailKeeps DEF stopKill, Failing
  <1>3. ASSUME NEW w \in Workers, workerExit(w) PROVE DirInv' /\ SoundInv'
    BY <1>3, EndsMoves, FailKeeps DEF workerExit
  <1>4. ASSUME NEW k \in Upgrades, upgradeFails(k) PROVE DirInv' /\ SoundInv'
    BY <1>4, DropsMoves, FailKeeps DEF upgradeFails
  <1>5. ASSUME NEW k \in Upgrades,
               \/ rename(k) \/ create(k) \/ createTruncates(k) \/ copy(k) \/ chmod(k)
               \/ \E w \in Workers : download(k, w)
        PROVE  DirInv' /\ SoundInv'
    BY <1>5, NameKeeps, RenameKeeps, CreateKeeps, TruncateKeeps, CopyKeeps, ChmodKeeps
  <1>6. QED
    <2>1. Daemon \/ daemonStart \/ stopSet \/ daemonExit => UNCHANGED <<fileVars, upc>>
      BY DEF Daemon, testStopped, startWorker, startWorkerFails, wait, sleep, daemonStart, stopSet,
             daemonExit
    <2>2. \A w \in Workers : runServes(w) \/ runFails(w) => UNCHANGED <<fileVars, upc>>
      BY DEF runServes, runFails
    <2>3. UNCHANGED vars => UNCHANGED <<fileVars, upc>>
      BY DEF vars, fileVars
    <2>4. QED
      BY <1>1, <1>2, <1>3, <1>4, <1>5, <2>1, <2>2, <2>3 DEF Next

\* An upgrade ends with its worker, whose name is given to another one only then.
LEMMA ByStep == TypeOK /\ ByInv /\ [Next]_vars => ByInv'
  <1> SUFFICES ASSUME TypeOK, ByInv, [Next]_vars PROVE ByInv'
    OBVIOUS
  <1> USE DEF ByInv
  <1>1. CASE UNCHANGED <<worker, image, by, upc>>
    BY <1>1
  <1>2. ASSUME NEW w \in Workers, startWorker(w) PROVE ByInv'
    BY <1>2 DEF startWorker, TypeOK
  <1>3. ASSUME NEW w \in Workers, Ends(w) PROVE ByInv'
    BY <1>3, EndsMoves
  <1>4. CASE stopKill
    BY <1>1, <1>3, <1>4 DEF stopKill, TypeOK
  <1>5. ASSUME NEW w \in Workers, workerExit(w) PROVE ByInv'
    BY <1>3, <1>5 DEF workerExit
  <1>6. ASSUME NEW w \in Workers, runServes(w) \/ runFails(w) PROVE ByInv'
    BY <1>6 DEF runServes, runFails, TypeOK
  <1>7. ASSUME NEW k \in Upgrades, NEW w \in Workers, download(k, w) PROVE ByInv'
    <2>1. \A j \in Upgrades \ {k} : upc'[j] = upc[j] /\ by'[j] = by[j]
      BY <1>7, ToMoves DEF download, Steps, TypeOK
    <2>2. by'[k] = w /\ worker[w] = "up" /\ image[w] = 0 /\ UNCHANGED <<worker, image>>
      BY <1>7 DEF download, TypeOK
    <2>3. QED
      BY <2>1, <2>2
  <1>8. ASSUME NEW k \in Upgrades, upc[k] \notin Done, UNCHANGED <<worker, image, by>>,
               \A j \in Upgrades \ {k} : upc'[j] = upc[j] \/ upc[j] \notin Done
        PROVE  ByInv'
    BY <1>8
  <1>9. ASSUME NEW k \in Upgrades, rename(k) \/ create(k) \/ copy(k) PROVE ByInv'
    <2>1. \A j \in Upgrades \ {k} : upc'[j] = upc[j]
      BY <1>9 DEF rename, create, copy, To, TypeOK
    <2>2. upc[k] \notin Done /\ UNCHANGED <<worker, image, by>>
      BY <1>9 DEF rename, create, copy, At, Done
    <2>3. QED
      BY <1>8, <2>1, <2>2
  <1>c. ASSUME NEW k \in Upgrades, chmod(k) PROVE ByInv'
    <2>1. /\ upc'[k] \in Done /\ UNCHANGED <<worker, image>>
          /\ \A j \in Upgrades \ {k} : upc'[j] = upc[j] /\ by'[j] = by[j]
      BY <1>c, ToMoves DEF chmod, Steps, Done, TypeOK
    <2>2. QED
      BY <2>1
  <1>f. ASSUME NEW k \in Upgrades, upgradeFails(k) PROVE ByInv'
    BY <1>f, DropsMoves DEF upgradeFails
  <1>10. ASSUME NEW k \in Upgrades, createTruncates(k) PROVE ByInv'
    <2>1. \A j \in Upgrades \ {k} : upc'[j] = upc[j] \/ upc[j] \notin Done
      BY <1>10 DEF createTruncates, At, Done
    <2>2. upc[k] \notin Done /\ UNCHANGED <<worker, image, by>>
      BY <1>10 DEF createTruncates, At, Done
    <2>3. QED
      BY <1>8, <2>1, <2>2
  <1>11. QED
    <2>1. testStopped \/ startWorkerFails \/ wait \/ sleep \/ daemonStart \/ stopSet \/ daemonExit
             \/ UNCHANGED vars => UNCHANGED <<worker, image, by, upc>>
      BY DEF testStopped, startWorkerFails, wait, sleep, daemonStart, stopSet, daemonExit, vars
    <2>2. QED
      BY <1>1, <1>2, <1>4, <1>5, <1>6, <1>7, <1>9, <1>c, <1>f, <1>10, <2>1 DEF Next, Daemon

-----------------------------------------------------------------------------
(* The workers.                                                             *)

LEMMA WorkerStep == TypeOK /\ WorkerInv /\ [Next]_vars => WorkerInv'
  <1> SUFFICES ASSUME TypeOK, WorkerInv, [Next]_vars PROVE WorkerInv'
    OBVIOUS
  <1> USE DEF WorkerInv
  <1>1. CASE daemonStart \/ testStopped \/ startWorkerFails \/ wait \/ sleep
    BY <1>1 DEF daemonStart, testStopped, startWorkerFails, wait, sleep
  <1>2. ASSUME NEW w \in Workers, startWorker(w) PROVE WorkerInv'
    BY <1>2 DEF startWorker, TypeOK
  <1>3. CASE stopSet
    BY <1>3 DEF stopSet
  <1>4. CASE stopKill
    <2>1. CASE proc = None
      BY <1>4, <2>1, Constants DEF stopKill
    <2>2. CASE proc # None
      <3>1. proc \in Workers /\ Ends(proc) /\ UNCHANGED <<dpc, proc>>
        BY <1>4, <2>2 DEF stopKill, TypeOK
      <3>2. \A w \in Workers \ late' : worker'[w] = "none"
        BY <3>1, EndsMoves
      <3>3. QED
        BY <3>2
    <2>3. QED
      BY <2>1, <2>2
  <1>5. CASE daemonExit
    BY <1>5 DEF daemonExit
  <1>6. ASSUME NEW w \in Workers, runServes(w) \/ runFails(w) PROVE WorkerInv'
    BY <1>6 DEF runServes, runFails, daemonVars, TypeOK
  <1>7. ASSUME NEW w \in Workers, workerExit(w) PROVE WorkerInv'
    BY <1>7, EndsMoves DEF workerExit, daemonVars
  <1>8. CASE UNCHANGED <<daemonVars, worker>>
    BY <1>8 DEF daemonVars
  <1>9. QED
    <2>1. \A k \in Upgrades : /\ \A w \in Workers : download(k, w) => UNCHANGED <<daemonVars, worker>>
                              /\ rename(k) \/ create(k) \/ createTruncates(k)
                                    \/ copy(k) \/ chmod(k) \/ upgradeFails(k)
                                    => UNCHANGED <<daemonVars, worker>>
      BY DEF download, rename, create, createTruncates, copy, chmod, upgradeFails
    <2>2. UNCHANGED vars => UNCHANGED <<daemonVars, worker>>
      BY DEF vars, daemonVars
    <2>3. QED
      BY <1>1, <1>2, <1>3, <1>4, <1>5, <1>6, <1>7, <1>8, <2>1, <2>2 DEF Next, Daemon

-----------------------------------------------------------------------------
LEMMA InitInv == Init => Inv
  <1> SUFFICES ASSUME Init PROVE Inv
    OBVIOUS
  <1>1. TypeOK
    BY TypeInit
  <1>2. /\ dir[bin] = 0 /\ last = bin /\ file[0].whole /\ file[0].exec
        /\ \A n \in Names : n # bin => dir[n] = None
        /\ \A k \in Upgrades : upc[k] = "new" /\ out[k] = k
    BY Constants DEF Init
  <1>d. DirInv
    BY <1>2, Constants DEF DirInv, AloneInv, NameInv, FilesInv, At
  <1>s. SoundInv /\ ByInv
    BY <1>2, Constants DEF SoundInv, ByInv, Made, Done, bin
  <1>3. WorkerInv
    BY DEF Init, WorkerInv
  <1>4. QED
    BY <1>1, <1>d, <1>s, <1>3 DEF Inv

\* The inductive invariant holds of the daemon, its workers and their upgrades.
THEOREM Invariant == Spec => []Inv
  <1>1. Inv /\ [Next]_vars => Inv'
    BY TypeStep, FileStep, ByStep, WorkerStep DEF Inv
  <1>2. QED
    BY <1>1, InitInv, PTL DEF Spec

\* The variables of Upgrade keep their types.
THEOREM Typed == Spec => []TypeOK
  <1>1. Inv => TypeOK
    BY DEF Inv
  <1>2. QED
    BY <1>1, Invariant, PTL

\* However many upgrades are retried, fail or die with their worker, the installed
\* binary remains in the directory, complete and executable, unless one renamed
\* another one's file over it; and bin is never truncated (upgradeMyself).
THEOREM BinaryRemains == Spec => []BinaryKept
  <1>1. Inv => BinaryKept
    BY Constants DEF Inv, DirInv, AloneInv, SoundInv, BinaryKept, Runnable, Whole
  <1>2. QED
    BY <1>1, Invariant, PTL

\* When all upgrades have answered "success", bin is a new binary that is complete
\* and executable; whichever have, each leaves one under the name that os.Executable
\* gave it (upgradeMyself).
THEOREM SuccessIsRunnable == Spec => []SuccessRunnable
  <1>1. Inv => SuccessRunnable
    <2> SUFFICES ASSUME Inv PROVE SuccessRunnable
      OBVIOUS
    <2>1. ASSUME \A k \in Upgrades : upc[k] \in {"new", "done"},
                 NEW k \in Upgrades, upc[k] = "done"
          PROVE  dir[bin] # 0 /\ Runnable(dir[bin])
      <3>1. dir[bin] # None /\ dir[bin] # 0
        BY <2>1 DEF Inv, DirInv, NameInv
      <3>2. dir[bin] \in Upgrades
        BY <3>1, Constants DEF Inv, TypeOK
      <3>3. upc[dir[bin]] = "done" /\ file[dir[bin]].whole /\ file[dir[bin]].exec
        BY <2>1, <3>2 DEF Inv, DirInv, NameInv
      <3>4. QED
        BY <3>1, <3>3 DEF Runnable, Whole
    <2>2. ASSUME ~stale, NEW k \in Upgrades, upc[k] = "done"
          PROVE  dir[path[k]] = k /\ Runnable(k)
      BY <2>2, Constants DEF Inv, SoundInv, Made, Runnable, Whole
    <2>3. QED
      BY <2>1, <2>2 DEF SuccessRunnable, At
  <1>2. QED
    BY <1>1, Invariant, PTL

\* Over restarts of the worker and of the service there is one worker, beside
\* those that run started after Stop had looked for one to kill (run, Stop).
THEOREM OneWorkerAtATime == Spec => []OneWorker
  <1>1. Inv => OneWorker
    <2> SUFFICES ASSUME Inv PROVE Cardinality(Alive \ late) <= 1
      BY DEF OneWorker
    <2>1. Alive \ late \subseteq {proc}
      BY DEF Inv, WorkerInv, Alive
    <2>2. Alive \ late = {} \/ Alive \ late = {proc}
      BY <2>1
    <2>3. Cardinality({}) = 0 /\ Cardinality({proc}) = 1
      BY FS_EmptySet, FS_Singleton
    <2>4. QED
      BY <2>2, <2>3
  <1>2. QED
    BY <1>1, Invariant, PTL

-----------------------------------------------------------------------------
(* Induction and recursion.                                                 *)

\* A nonempty set of natural numbers has a least element.
LEMMA Least ==
    ASSUME NEW T \in SUBSET Nat, T # {}
    PROVE  \E n \in T : \A m \in T : n <= m
<1> DEFINE R == OpToRel(<, Nat)
<1>1. IsWellFoundedOn(R, Nat)
  BY NatLessThanWellFounded
<1>2. \A m, n \in Nat : m < n => <<m, n>> \in R
  BY DEF OpToRel
<1> HIDE DEF R
<1>3. PICK n \in T : \A m \in T : ~(<<m, n>> \in R)
  BY <1>1, WFMin
<1>4. ASSUME NEW m \in T PROVE n <= m
  <2>1. m \in Nat /\ n \in Nat
    OBVIOUS
  <2>2. ~(m < n)
    BY <1>2, <1>3, <2>1, Zenon
  <2> QED BY <2>1, <2>2
<1> QED BY <1>4

\* Induction, for the set of numbers that have a property.
LEMMA SetInduction ==
    ASSUME NEW S \in SUBSET Nat, 0 \in S, \A n \in S : n + 1 \in S
    PROVE  S = Nat
<1>1. SUFFICES ASSUME Nat \ S # {} PROVE FALSE
  OBVIOUS
<1>2. PICK n \in Nat \ S : \A m \in Nat \ S : n <= m
  BY <1>1, Least
<1>3. n # 0 /\ n - 1 \in S
  BY <1>2
<1> QED BY <1>2, <1>3

\* The same, up to a bound.
LEMMA UptoInduction ==
    ASSUME NEW N \in Nat, NEW S, 0 \in S, \A n \in 0 .. N - 1 : n \in S => n + 1 \in S
    PROVE  \A n \in 0 .. N : n \in S
<1> DEFINE T == {n \in Nat : n <= N => n \in S}
<1>1. T \in SUBSET Nat /\ 0 \in T
  OBVIOUS
<1>2. ASSUME NEW n \in T PROVE n + 1 \in T
  <2> SUFFICES ASSUME n + 1 <= N PROVE n + 1 \in S
    OBVIOUS
  <2>1. n \in 0 .. N - 1 /\ n \in S
    OBVIOUS
  <2> QED BY <2>1
<1> HIDE DEF T
<1>3. T = Nat
  BY <1>1, <1>2, SetInduction
<1>4. ASSUME NEW n \in 0 .. N PROVE n \in S
  <2>1. n \in T /\ n <= N
    BY <1>3
  <2> QED BY <2>1 DEF T
<1> QED BY <1>4

\* F defines a function from D to X by recursion: its value at i, F[i][g], depends
\* on the values of g at arguments of smaller rank only.
Recursive(D, X, N, rank, F) ==
    /\ X # {} /\ N \in Nat /\ rank \in [D -> 0 .. N] /\ F \in [D -> [[D -> X] -> X]]
    /\ \A i \in D : \A g, h \in [D -> X] :
            (\A j \in D : rank[j] < rank[i] => g[j] = h[j]) => F[i][g] = F[i][h]

\* There is such a function.
LEMMA Recursion ==
    ASSUME NEW D, NEW X, NEW N, NEW rank, NEW F, Recursive(D, X, N, rank, F)
    PROVE  \E g \in [D -> X] : \A i \in D : g[i] = F[i][g]
<1> USE DEF Recursive
<1> DEFINE Upto(n) == \E g \in [D -> X] : \A i \in D : rank[i] < n => g[i] = F[i][g]
           S == {n \in Nat : Upto(n)}
<1>0. \A i \in D : rank[i] \in Nat /\ rank[i] < N + 1
  OBVIOUS
<1>1. Upto(0)
  <2>1. PICK x \in X : TRUE
    OBVIOUS
  <2>2. [i \in D |-> x] \in [D -> X]
    OBVIOUS
  <2>3. \A i \in D : ~(rank[i] < 0)
    BY <1>0
  <2> QED BY <2>2, <2>3
<1>2. ASSUME NEW n \in Nat, Upto(n) PROVE Upto(n + 1)
  <2>1. PICK g \in [D -> X] : \A i \in D : rank[i] < n => g[i] = F[i][g]
    BY <1>2
  <2> DEFINE h == [i \in D |-> IF rank[i] = n THEN F[i][g] ELSE g[i]]
  <2>2. h \in [D -> X]
    OBVIOUS
  <2>3. \A i \in D : h[i] = IF rank[i] = n THEN F[i][g] ELSE g[i]
    OBVIOUS
  <2> HIDE DEF h
  <2>4. ASSUME NEW i \in D, rank[i] < n + 1 PROVE h[i] = F[i][h]
    <3>1. rank[i] = n \/ rank[i] < n
      <4>1. \A r \in Nat : r < n + 1 => r = n \/ r < n
        OBVIOUS
      <4> QED BY <1>0, <2>4, <4>1, Zenon
    <3>2. \A j \in D : rank[j] < rank[i] => g[j] = h[j]
      BY <2>3, <3>1
    <3>3. F[i][g] = F[i][h]
      BY <2>2, <3>2, Zenon
    <3> QED BY <2>1, <2>3, <3>1, <3>3
  <2> QED BY <2>2, <2>4
<1> HIDE DEF Upto
<1>3. S = Nat
  <2>1. S \in SUBSET Nat /\ 0 \in S
    BY <1>1
  <2>2. \A n \in S : n + 1 \in S
    BY <1>2
  <2> HIDE DEF S
  <2> QED BY <2>1, <2>2, SetInduction
<1>4. Upto(N + 1)
  <2>1. N + 1 \in S
    BY <1>3
  <2> QED BY <2>1
<1> QED BY <1>0, <1>4 DEF Upto

-----------------------------------------------------------------------------
\* A power of two is the number of subsets of an interval.
LEMMA PowerIsCardinality ==
    ASSUME NEW a \in Nat, NEW n \in Nat
    PROVE  /\ IsFiniteSet(SUBSET (a + 1 .. a + n))
           /\ Cardinality(SUBSET (a + 1 .. a + n)) = 2 ^ n
           /\ 2 ^ n \in Nat \ {0}
<1> DEFINE I == a + 1 .. a + n
<1>1. IsFiniteSet(I) /\ Cardinality(I) = IF a + 1 > a + n THEN 0 ELSE (a + n) - (a + 1) + 1
  BY FS_Interval
<1>2. (IF a + 1 > a + n THEN 0 ELSE (a + n) - (a + 1) + 1) = n
  OBVIOUS
<1> HIDE DEF I
<1>3. IsFiniteSet(SUBSET I) /\ Cardinality(SUBSET I) = 2 ^ n
  BY <1>1, <1>2, FS_SUBSET
<1>4. SUBSET I # {}
  OBVIOUS
<1>5. Cardinality(SUBSET I) \in Nat \ {0}
  BY <1>3, <1>4, FS_CardinalityType, FS_EmptySet
<1> QED BY <1>3, <1>5 DEF I

\* Powers of two multiply: the subsets of two intervals, one behind the other,
\* are the pairs of their subsets.
LEMMA PowerSum ==
    ASSUME NEW a \in Nat, NEW b \in Nat
    PROVE  2 ^ (a + b) = 2 ^ a * 2 ^ b
<1> DEFINE I == 0 + 1 .. 0 + a
           J == a + 1 .. a + b
           K == 0 + 1 .. 0 + (a + b)
           S == SUBSET K
           T == (SUBSET I) \X (SUBSET J)
           f == [s \in S |-> <<s \cap I, s \cap J>>]
<1>1. I \cup J = K /\ I \cap J = {}
  OBVIOUS
<1>2. /\ IsFiniteSet(SUBSET I) /\ Cardinality(SUBSET I) = 2 ^ a
      /\ IsFiniteSet(SUBSET J) /\ Cardinality(SUBSET J) = 2 ^ b
      /\ IsFiniteSet(S) /\ Cardinality(S) = 2 ^ (a + b)
  <2>1. a + b \in Nat
    OBVIOUS
  <2> QED BY <2>1, PowerIsCardinality
<1> HIDE DEF I, J, K
<1>3. IsFiniteSet(T) /\ Cardinality(T) = 2 ^ a * 2 ^ b
  <2> DEFINE A == SUBSET I
             C == SUBSET J
  <2>1. IsFiniteSet(A) /\ IsFiniteSet(C) /\ Cardinality(A) = 2 ^ a /\ Cardinality(C) = 2 ^ b
    BY <1>2
  <2> HIDE DEF A, C
  <2>2. IsFiniteSet(A \X C) /\ Cardinality(A \X C) = Cardinality(A) * Cardinality(C)
    BY <2>1, FS_Product
  <2> QED BY <2>1, <2>2 DEF A, C
<1>4. f \in [S -> T]
  OBVIOUS
<1>5. ASSUME NEW s \in S, NEW t \in S, f[s] = f[t] PROVE s = t
  <2>1. s \cap I = t \cap I /\ s \cap J = t \cap J
    BY <1>5
  <2> QED BY <1>1, <2>1
<1>6. ASSUME NEW t \in T PROVE \E s \in S : f[s] = t
  <2>1. PICK u \in SUBSET I, v \in SUBSET J : t = <<u, v>>
    OBVIOUS
  <2>2. u \cup v \in S /\ (u \cup v) \cap I = u /\ (u \cup v) \cap J = v
    BY <1>1
  <2> QED BY <2>1, <2>2
<1> HIDE DEF S, T, f
<1>7. f \in Bijection(S, T)
  <2>1. f \in Injection(S, T)
    BY <1>4, <1>5 DEF Injection, IsInjective
  <2>2. f \in Surjection(S, T)
    BY <1>4, <1>6 DEF Surjection
  <2> QED BY <2>1, <2>2 DEF Bijection
<1>8. ExistsBijection(S, T)
  BY <1>7 DEF ExistsBijection
<1> QED BY <1>2, <1>3, <1>8, FS_Bijection

-----------------------------------------------------------------------------
\* Division with remainder, and back.
LEMMA Division ==
    ASSUME NEW a \in Nat, NEW d \in Nat \ {0}
    PROVE  a = d * (a \div d) + (a % d) /\ a % d \in 0 .. d - 1 /\ a \div d \in Nat
<1>1. a = d * (a \div d) + (a % d)
  OBVIOUS
<1>2. a % d \in 0 .. d - 1
  OBVIOUS
<1>3. a \div d \in Nat
  OBVIOUS
<1> QED BY <1>1, <1>2, <1>3

LEMMA Quotient ==
    ASSUME NEW q \in Nat, NEW d \in Nat \ {0}, NEW r \in 0 .. d - 1
    PROVE  (q * d + r) \div d = q /\ (q * d + r) % d = r
  OBVIOUS

\* The numbers with a given quotient are an interval.
LEMMA QuotientInterval ==
    ASSUME NEW a \in Nat, NEW q \in Nat, NEW d \in Nat \ {0}
    PROVE  (q * d <= a /\ a <= q * d + (d - 1)) <=> a \div d = (q * d) \div d
<1>1. (q * d) \div d = q
  <2>1. q * d + 0 = q * d /\ 0 \in 0 .. d - 1
    OBVIOUS
  <2> QED BY <2>1, Quotient
<1>2. ASSUME q * d <= a, a <= q * d + (d - 1) PROVE a \div d = q
  <2>1. a - q * d \in 0 .. d - 1 /\ a = q * d + (a - q * d)
    BY <1>2
  <2> QED BY <2>1, Quotient
<1>3. ASSUME a \div d = q PROVE q * d <= a /\ a <= q * d + (d - 1)
  <2>1. a = d * q + (a % d) /\ a % d \in 0 .. d - 1
    BY <1>3, Division
  <2>2. d * q = q * d /\ q * d \in Nat
    OBVIOUS
  <2> QED BY <2>1, <2>2
<1> QED BY <1>1, <1>2, <1>3

-----------------------------------------------------------------------------
(* getCidrIntRange.                                                         *)

\* A word is split by any prefix into a power of two and another.
LEMMA WordSplit ==
    ASSUME NEW s \in 0 .. W
    PROVE  /\ Word \in Nat \ {0} /\ 2 ^ s \in Nat \ {0} /\ 2 ^ (W - s) \in Nat \ {0}
           /\ Word = 2 ^ (W - s) * 2 ^ s /\ 2 ^ s <= Word
<1>1. W \in Nat /\ s \in Nat /\ W - s \in Nat /\ 0 \in Nat
  BY WAssumption
<1>2. 2 ^ W \in Nat \ {0} /\ 2 ^ s \in Nat \ {0} /\ 2 ^ (W - s) \in Nat \ {0}
  BY <1>1, PowerIsCardinality
<1>3. 2 ^ ((W - s) + s) = 2 ^ (W - s) * 2 ^ s
  BY <1>1, PowerSum
<1>4. (W - s) + s = W
  BY <1>1
<1>5. Word = 2 ^ (W - s) * 2 ^ s
  BY <1>3, <1>4 DEF Word
<1>6. \A d, e \in Nat \ {0} : d <= e * d
  OBVIOUS
<1> QED BY <1>2, <1>5, <1>6 DEF Word

\* The mask that getCidrIntRange shifts: the last s bits are cleared, for a
\* shift by nothing and by the whole width too.
LEMMA ShiftedMask ==
    ASSUME NEW s \in 0 .. W
    PROVE  Shl(Word - 1, s) = Word - 2 ^ s
<1> DEFINE d == 2 ^ s
<1>1. Word \in Nat \ {0} /\ d \in Nat \ {0} /\ d <= Word
  BY WordSplit
<1>2. CASE s >= W
  <2>1. s = W
    BY <1>2, WAssumption
  <2>2. d = Word
    BY <2>1 DEF Word
  <2> QED BY <1>1, <1>2, <2>2 DEF Shl
<1>3. CASE ~(s >= W)
  <2> HIDE DEF d
  <2>1. \A w \in Nat : (w - 1) * d = (d - 1) * w + (w - d)
    BY <1>1
  <2>2. d - 1 \in Nat /\ Word - d \in 0 .. Word - 1
    BY <1>1
  <2>3. ((d - 1) * Word + (Word - d)) % Word = Word - d
    BY <1>1, <2>2, Quotient
  <2>4. ((Word - 1) * d) % Word = Word - d
    BY <1>1, <2>1, <2>3
  <2> QED BY <1>3, <2>4 DEF Shl, d
<1> QED BY <1>2, <1>3

\* s bits of an IPv4 address are behind the prefix of n: an IPv6 prefix may end
\* before the IPv4 address begins.
Behind4(n, s) ==
    \/ n.bits - n.ones = s
    \/ n.bits - n.ones > W /\ n.bits - n.ones \in Nat /\ s = W

\* The range of a network whose address has its last s bits cleared, s being
\* the number of bits behind the prefix: the addition does not wrap.
LEMMA RangeEnds ==
    ASSUME NEW n, NEW s \in 0 .. W, Behind4(n, s), NEW q \in Nat, n.ip = q * 2 ^ s, n.ip < Word
    PROVE  /\ getCidrIntRange(n).min = n.ip
           /\ getCidrIntRange(n).max = n.ip + (2 ^ s - 1)
           /\ n.ip + (2 ^ s - 1) < Word
<1> DEFINE d == 2 ^ s
           e == 2 ^ (W - s)
<1>1. Word \in Nat \ {0} /\ d \in Nat \ {0} /\ e \in Nat \ {0} /\ Word = e * d /\ d <= Word
  BY WordSplit
<1>2. Shl(Word - 1, n.bits - n.ones) = Word - d
  <2>1. CASE n.bits - n.ones = s
    BY <2>1, ShiftedMask
  <2>2. CASE n.bits - n.ones > W /\ n.bits - n.ones \in Nat /\ s = W
    <3>1. Shl(Word - 1, n.bits - n.ones) = 0
      BY <2>2, WAssumption DEF Shl
    <3>2. d = Word
      BY <2>2 DEF Word
    <3> QED BY <1>1, <3>1, <3>2
  <2> QED BY <2>1, <2>2 DEF Behind4
<1> HIDE DEF d, e
<1>3. q * d + (d - 1) < Word
  <2>1. q * d < e * d
    BY <1>1 DEF d
  <2>2. q < e
    BY <1>1, <2>1
  <2>3. (q + 1) * d <= e * d
    BY <1>1, <2>2
  <2> QED BY <1>1, <2>3
<1>4. q * d + (d - 1) \in Nat
  BY <1>1
<1>5. (q * d + (Word - 1 - (Word - d))) % Word = q * d + (d - 1)
  <2>1. Word - 1 - (Word - d) = d - 1
    BY <1>1
  <2>2. \A x \in Nat : x < Word => x % Word = x
    BY <1>1
  <2> QED BY <1>3, <1>4, <2>1, <2>2
<1> QED BY <1>2, <1>3, <1>5 DEF getCidrIntRange, d

\* What net.ParseCIDR hands to getCidrIntRange, in any notation: the address is
\* a multiple of the size of the network.
LEMMA NetShape ==
    ASSUME NEW n \in AllNets
    PROVE  \E s \in 0 .. W : \E q \in Nat :
                /\ Behind4(n, s) /\ PrefixLength(n) = W - s
                /\ n.ip = q * 2 ^ s /\ n.ip < Word
<1>1. ASSUME NEW a \in 0 .. Word - 1, NEW p \in 0 .. W
      PROVE  /\ W - p \in 0 .. W
             /\ \E q \in Nat : Masked(a, p) = q * 2 ^ (W - p)
             /\ Masked(a, p) < Word
  <2> DEFINE d == 2 ^ (W - p)
  <2>1. W - p \in 0 .. W
    BY WAssumption
  <2>2. d \in Nat \ {0} /\ Word \in Nat
    BY <2>1, WordSplit
  <2> HIDE DEF d
  <2>3. a \in Nat /\ a < Word
    BY <2>2
  <2>4. a = d * (a \div d) + (a % d) /\ a % d \in 0 .. d - 1 /\ a \div d \in Nat
    BY <2>2, <2>3, Division
  <2>5. a - (a % d) = (a \div d) * d /\ a - (a % d) < Word
    BY <2>2, <2>3, <2>4
  <2>6. Masked(a, p) = a - (a % d)
    BY DEF Masked, d
  <2> QED BY <2>1, <2>4, <2>5, <2>6 DEF d
<1>2. CASE n \in V4Nets
  <2>1. PICK a \in 0 .. Word - 1, p \in 0 .. W : n = [ip |-> Masked(a, p), ones |-> p, bits |-> W]
    BY <1>2 DEF V4Nets
  <2>2. n.bits - n.ones = W - p /\ PrefixLength(n) = W - (W - p) /\ n.ip = Masked(a, p)
    BY <2>1, WAssumption DEF PrefixLength
  <2> QED BY <1>1, <2>2 DEF Behind4
<1>3. CASE n \in MappedNets
  <2>1. PICK m \in V4Nets : n = [m EXCEPT !.ones = 3 * W + @, !.bits = 4 * W]
    BY <1>3 DEF MappedNets
  <2>2. PICK a \in 0 .. Word - 1, p \in 0 .. W : m = [ip |-> Masked(a, p), ones |-> p, bits |-> W]
    BY DEF V4Nets
  <2>3. n = [ip |-> Masked(a, p), ones |-> 3 * W + p, bits |-> 4 * W]
    BY <2>1, <2>2
  <2>4. n.bits - n.ones = W - p /\ PrefixLength(n) = W - (W - p) /\ n.ip = Masked(a, p)
    BY <2>3, WAssumption DEF PrefixLength
  <2> QED BY <1>1, <2>4 DEF Behind4
<1>4. CASE n \in V6Nets
  <2>1. PICK p \in 0 .. 4 * W : n = [ip |-> 0, ones |-> p, bits |-> 4 * W]
    BY <1>4 DEF V6Nets
  <2>2. n.ip = 0 /\ n.ones = p /\ n.bits = 4 * W /\ n.bits # W
    BY <2>1, WAssumption
  <2>3. \A s \in 0 .. W : n.ip = 0 * 2 ^ s /\ n.ip < Word
    <3>1. \A s \in 0 .. W : 2 ^ s \in Nat \ {0} /\ Word \in Nat \ {0}
      BY WordSplit
    <3> QED BY <2>2, <3>1
  <2>4. CASE p > 3 * W
    <3>1. 4 * W - p \in 0 .. W /\ n.bits - n.ones = 4 * W - p /\ p - 3 * W = W - (4 * W - p)
      BY <2>2, <2>4, WAssumption
    <3>2. PrefixLength(n) = p - 3 * W
      BY <2>2, <2>4 DEF PrefixLength
    <3> QED BY <2>3, <3>1, <3>2 DEF Behind4
  <2>5. CASE ~(p > 3 * W)
    <3>1. W \in 0 .. W /\ W - W = 0
      BY WAssumption
    <3>2. PrefixLength(n) = 0
      BY <2>2, <2>5 DEF PrefixLength
    <3>3. Behind4(n, W)
      BY <2>2, <2>5, WAssumption DEF Behind4
    <3> QED BY <2>3, <3>1, <3>2, <3>3
  <2> QED BY <2>4, <2>5
<1> QED BY <1>2, <1>3, <1>4 DEF AllNets

\* Every network has the range of the addresses that share its prefix.
LEMMA RangeExact ==
    ASSUME NEW n \in AllNets, NEW a \in 0 .. Word - 1
    PROVE  InRange(a, n) <=> SamePrefix(a, n.ip, PrefixLength(n))
<1>1. PICK s \in 0 .. W, q \in Nat :
            /\ Behind4(n, s) /\ PrefixLength(n) = W - s
            /\ n.ip = q * 2 ^ s /\ n.ip < Word
  BY NetShape
<1>2. W - PrefixLength(n) = s
  BY <1>1, WAssumption
<1>3. InRange(a, n) <=> (n.ip <= a /\ a <= n.ip + (2 ^ s - 1))
  BY <1>1, RangeEnds DEF InRange
<1>4. a \in Nat /\ 2 ^ s \in Nat \ {0}
  BY WordSplit
<1>5. (q * 2 ^ s <= a /\ a <= q * 2 ^ s + (2 ^ s - 1)) <=> a \div (2 ^ s) = (q * 2 ^ s) \div (2 ^ s)
  BY <1>4, QuotientInterval
<1> QED BY <1>1, <1>2, <1>3, <1>5 DEF SamePrefix

\* Multiples of d cannot lie across the border of a multiple of e * d.
LEMMA Borders ==
    ASSUME NEW d \in Nat \ {0}, NEW e \in Nat \ {0}, NEW q \in Nat, NEW r \in Nat
    PROVE  \/ q * d + (d - 1) < r * (e * d)
           \/ r * (e * d) + (e * d - 1) < q * d
           \/ r * (e * d) <= q * d /\ q * d + (d - 1) <= r * (e * d) + (e * d - 1)
<1> DEFINE m == r * e
<1>1. m \in Nat /\ r * (e * d) = m * d
  OBVIOUS
<1>2. m * d + e * d = (m + e) * d
  OBVIOUS
<1> HIDE DEF m
<1>3. \A x, y \in Nat : x <= y => x * d <= y * d
  OBVIOUS
<1>4. \A x \in Nat : (x + 1) * d = x * d + d /\ x * d \in Nat
  OBVIOUS
<1>5. CASE q + 1 <= m
  <2>1. (q + 1) * d <= m * d
    BY <1>1, <1>3, <1>5
  <2> QED BY <1>1, <1>4, <2>1
<1>6. CASE m + e <= q
  <2>1. (m + e) * d <= q * d
    BY <1>1, <1>3, <1>6
  <2> QED BY <1>1, <1>2, <1>4, <2>1
<1>7. CASE m <= q /\ q + 1 <= m + e
  <2>1. m * d <= q * d /\ (q + 1) * d <= (m + e) * d
    BY <1>1, <1>3, <1>7
  <2> QED BY <1>1, <1>2, <1>4, <2>1
<1> QED BY <1>1, <1>5, <1>6, <1>7

Nested(r1, r2) == r2.min <= r1.min /\ r1.max <= r2.max
Disjoint(r1, r2) == r1.max < r2.min \/ r2.max < r1.min

\* The range of a network is a nonempty interval of addresses, as ProxyRouter
\* assumes of its networks, and the ranges of two networks that share an address
\* are one inside the other: a range that addRoute refuses because it overlaps is
\* never a range that merely begins or ends in another one.
THEOREM RangesNest ==
    ASSUME NEW n1 \in AllNets, NEW n2 \in AllNets
    PROVE  LET r1 == getCidrIntRange(n1)
               r2 == getCidrIntRange(n2)
           IN  /\ r1.min \in 0 .. Word - 1 /\ r1.max \in 0 .. Word - 1 /\ r1.min <= r1.max
               /\ Nested(r1, r2) \/ Nested(r2, r1) \/ Disjoint(r1, r2)
<1> DEFINE IsRange(r, s, q) == /\ r.min = q * 2 ^ s /\ r.max = q * 2 ^ s + (2 ^ s - 1)
                               /\ q * 2 ^ s + (2 ^ s - 1) < Word
<1>1. ASSUME NEW n \in AllNets
      PROVE  \E s \in 0 .. W : \E q \in Nat : IsRange(getCidrIntRange(n), s, q)
  <2>1. PICK s \in 0 .. W, q \in Nat :
            /\ Behind4(n, s) /\ PrefixLength(n) = W - s
            /\ n.ip = q * 2 ^ s /\ n.ip < Word
    BY NetShape
  <2>2. IsRange(getCidrIntRange(n), s, q)
    BY <2>1, RangeEnds
  <2> QED BY <2>2
<1>2. ASSUME NEW r1, NEW r2, NEW s1 \in 0 .. W, NEW s2 \in 0 .. W, NEW q1 \in Nat, NEW q2 \in Nat,
             IsRange(r1, s1, q1), IsRange(r2, s2, q2), s1 <= s2
      PROVE  Nested(r1, r2) \/ Disjoint(r1, r2)
  <2> DEFINE d == 2 ^ s1
             e == 2 ^ (s2 - s1)
             c == 2 ^ s2
  <2>1. s1 \in Nat /\ s2 - s1 \in Nat /\ (s2 - s1) + s1 = s2 /\ 0 \in Nat
    BY <1>2, WAssumption
  <2>2. d \in Nat \ {0} /\ e \in Nat \ {0}
    BY <2>1, PowerIsCardinality
  <2>3. 2 ^ ((s2 - s1) + s1) = e * d
    BY <2>1, PowerSum
  <2>4. c = e * d
    BY <2>1, <2>3
  <2>5. /\ r1.min = q1 * d /\ r1.max = q1 * d + (d - 1)
        /\ r2.min = q2 * c /\ r2.max = q2 * c + (c - 1)
    BY <1>2
  <2> HIDE DEF d, e, c
  <2>6. /\ r1.min = q1 * d /\ r1.max = q1 * d + (d - 1)
        /\ r2.min = q2 * (e * d) /\ r2.max = q2 * (e * d) + (e * d - 1)
    BY <2>4, <2>5
  <2>7. \/ r1.max < r2.min
        \/ r2.max < r1.min
        \/ r2.min <= r1.min /\ r1.max <= r2.max
    BY <2>2, <2>6, Borders
  <2> QED BY <2>7 DEF Nested, Disjoint
<1> DEFINE r1 == getCidrIntRange(n1)
           r2 == getCidrIntRange(n2)
<1>3. PICK s1 \in 0 .. W, q1 \in Nat : IsRange(r1, s1, q1)
  BY <1>1
<1>4. PICK s2 \in 0 .. W, q2 \in Nat : IsRange(r2, s2, q2)
  BY <1>1
<1>5. r1.min \in 0 .. Word - 1 /\ r1.max \in 0 .. Word - 1 /\ r1.min <= r1.max
  <2> DEFINE d == 2 ^ s1
  <2>1. d \in Nat \ {0} /\ Word \in Nat
    BY WordSplit
  <2>2. r1.min = q1 * d /\ r1.max = q1 * d + (d - 1) /\ q1 * d + (d - 1) < Word
    BY <1>3
  <2> HIDE DEF d, r1
  <2>3. q1 * d \in Nat
    BY <2>1
  <2> QED BY <2>1, <2>2, <2>3
<1> HIDE DEF r1, r2, IsRange
<1>6. Nested(r1, r2) \/ Nested(r2, r1) \/ Disjoint(r1, r2)
  <2>1. CASE s1 <= s2
    <3>1. Nested(r1, r2) \/ Disjoint(r1, r2)
      BY <1>2, <1>3, <1>4, <2>1
    <3> QED BY <3>1
  <2>2. CASE s2 <= s1
    <3>1. Nested(r2, r1) \/ Disjoint(r2, r1)
      BY <1>2, <1>3, <1>4, <2>2
    <3>2. Disjoint(r2, r1) => Disjoint(r1, r2)
      BY DEF Disjoint
    <3> QED BY <3>1, <3>2
  <2>3. s1 <= s2 \/ s2 <= s1
    BY WAssumption
  <2> QED BY <2>1, <2>2, <2>3
<1> QED BY <1>5, <1>6 DEF r1, r2

-----------------------------------------------------------------------------
(* CompareVersion.                                                          *)

\* What the loop of CompareVersion makes of component i, f being what it makes
\* of those that follow.
Verdict(v1, v2, f, i) ==
    CASE i > Len(v1) -> LESS
      [] i <= Len(v1) /\ i > Len(v2) -> GREATER
      [] OTHER -> IF v1[i].val > v2[i].val THEN GREATER
                  ELSE IF v1[i].val < v2[i].val THEN LESS ELSE f[i + 1]

\* The loop is well defined.
LEMMA CompareLoop ==
    ASSUME NEW v1 \in Version, NEW v2 \in Version, v1 # v2
    PROVE  \E f : /\ CompareVersion(v1, v2) = f[1]
                  /\ \A i \in 1 .. Len(v1) + 1 : f[i] = Verdict(v1, v2, f, i)
<1> DEFINE D == 1 .. Len(v1) + 1
           X == {EQUAL, GREATER, LESS}
           rank == [i \in D |-> Len(v1) + 1 - i]
           F == [i \in D |-> [g \in [D -> X] |-> Verdict(v1, v2, g, i)]]
           f == CHOOSE f : f = [i \in D |-> Verdict(v1, v2, f, i)]
<1>0. Len(v1) \in Nat /\ Len(v2) \in Nat
  BY DEF Version
<1>1. rank \in [D -> 0 .. Len(v1)]
  BY <1>0
<1>2. ASSUME NEW i \in D, NEW g \in [D -> X] PROVE Verdict(v1, v2, g, i) \in X
  <2>1. CASE i > Len(v1)
    BY <2>1 DEF Verdict
  <2>2. CASE ~(i > Len(v1))
    <3>1. g[i + 1] \in X
      BY <1>0, <2>2
    <3> HIDE DEF X
    <3> QED BY <2>2, <3>1, <1>0 DEF Verdict, X
  <2> QED BY <2>1, <2>2
<1>3. F \in [D -> [[D -> X] -> X]]
  BY <1>2
<1>4. ASSUME NEW i \in D, NEW g \in [D -> X], NEW h \in [D -> X],
             \A j \in D : rank[j] < rank[i] => g[j] = h[j]
      PROVE  F[i][g] = F[i][h]
  <2>1. i <= Len(v1) => g[i + 1] = h[i + 1]
    <3> SUFFICES ASSUME i <= Len(v1) PROVE g[i + 1] = h[i + 1]
      OBVIOUS
    <3>1. i + 1 \in D /\ rank[i + 1] < rank[i]
      BY <1>0
    <3> QED BY <1>4, <3>1
  <2>2. Verdict(v1, v2, g, i) = Verdict(v1, v2, h, i)
    BY <1>0, <2>1 DEF Verdict
  <2> QED BY <2>2
<1>5. PICK g \in [D -> X] : \A i \in D : g[i] = F[i][g]
  <2> HIDE DEF D, rank, F
  <2>1. X # {}
    OBVIOUS
  <2> HIDE DEF X
  <2>2. \A i \in D : \A g, h \in [D -> X] :
            (\A j \in D : rank[j] < rank[i] => g[j] = h[j]) => F[i][g] = F[i][h]
    BY <1>4
  <2>3. Recursive(D, X, Len(v1), rank, F)
    BY <1>0, <1>1, <1>3, <2>1, <2>2 DEF Recursive
  <2> QED BY <2>3, Recursion
<1>6. g = [i \in D |-> Verdict(v1, v2, g, i)]
  BY <1>5
<1>7. f = [i \in D |-> Verdict(v1, v2, f, i)]
  <2> HIDE DEF D
  <2> QED BY <1>6
<1>8. CompareVersion(v1, v2) = f[1]
  BY DEF CompareVersion, Verdict
<1> HIDE DEF f
<1>9. \A i \in D : f[i] = Verdict(v1, v2, f, i)
  BY <1>7
<1> QED BY <1>8, <1>9

\* The loop passes over the components before m, which are equal.
LEMMA Skipped ==
    ASSUME NEW f, NEW m \in Nat \ {0}, \A k \in 1 .. m - 1 : f[k] = f[k + 1]
    PROVE  f[1] = f[m]
<1> DEFINE S == {n \in Nat : n < m => f[m - n] = f[m]}
<1>1. S \in SUBSET Nat /\ 0 \in S
  OBVIOUS
<1>2. ASSUME NEW n \in S PROVE n + 1 \in S
  <2> SUFFICES ASSUME n + 1 < m PROVE f[m - (n + 1)] = f[m]
    OBVIOUS
  <2>1. m - (n + 1) \in 1 .. m - 1 /\ (m - (n + 1)) + 1 = m - n /\ f[m - n] = f[m]
    OBVIOUS
  <2> QED BY <2>1
<1> HIDE DEF S
<1>3. S = Nat
  BY <1>1, <1>2, SetInduction
<1>4. m - 1 \in S /\ m - (m - 1) = 1
  BY <1>3
<1> QED BY <1>4 DEF S

\* The components of a version are numbers.
LEMMA ComponentType ==
    ASSUME NEW v \in Version
    PROVE  \A j \in 1 .. Len(v) : v[j].val \in Int
<1>1. ASSUME NEW j \in 1 .. Len(v) PROVE v[j].val \in Int
  <2>1. v[j] \in Component
    BY ElementOfSeq DEF Version
  <2> QED BY <2>1 DEF Component
<1> QED BY <1>1

\* The verdict on the first component in which the versions differ is that of
\* the comparison.
LEMMA FirstDifference ==
    ASSUME NEW v1 \in Version, NEW v2 \in Version, v1 # v2, NEW m \in 1 .. Len(v1) + 1,
           \A j \in 1 .. m - 1 : j <= Len(v2) /\ v1[j].val = v2[j].val
    PROVE  /\ m = Len(v1) + 1 => CompareVersion(v1, v2) = LESS
           /\ m = Len(v2) + 1 /\ m <= Len(v1) => CompareVersion(v1, v2) = GREATER
           /\ m <= Len(v1) /\ m <= Len(v2) /\ v1[m].val < v2[m].val => CompareVersion(v1, v2) = LESS
           /\ m <= Len(v1) /\ m <= Len(v2) /\ v2[m].val < v1[m].val => CompareVersion(v1, v2) = GREATER
<1>0. Len(v1) \in Nat /\ Len(v2) \in Nat /\ m \in Nat \ {0}
  BY DEF Version
<1>v. /\ \A j \in 1 .. Len(v1) : v1[j].val \in Int
      /\ \A j \in 1 .. Len(v2) : v2[j].val \in Int
  BY ComponentType
<1>1. PICK f : /\ CompareVersion(v1, v2) = f[1]
               /\ \A i \in 1 .. Len(v1) + 1 : f[i] = Verdict(v1, v2, f, i)
  BY CompareLoop
<1>2. ASSUME NEW k \in 1 .. m - 1 PROVE f[k] = f[k + 1]
  <2>1. k \in 1 .. Len(v1) + 1 /\ ~(k > Len(v1)) /\ k <= Len(v2) /\ k \in 1 .. Len(v1)
    BY <1>0
  <2>2. f[k] = Verdict(v1, v2, f, k)
    BY <1>1, <2>1
  <2>3. v1[k].val = v2[k].val /\ v1[k].val \in Int
    BY <1>v, <2>1
  <2>4. ~(v1[k].val > v2[k].val) /\ ~(v1[k].val < v2[k].val) /\ ~(k > Len(v2))
    BY <1>0, <2>1, <2>3
  <2> QED BY <1>0, <2>1, <2>2, <2>4 DEF Verdict
<1>3. f[1] = f[m]
  BY <1>0, <1>2, Skipped
<1>4. CompareVersion(v1, v2) = Verdict(v1, v2, f, m)
  BY <1>1, <1>3
<1> QED BY <1>0, <1>v, <1>4 DEF Verdict

\* What upgradeMyself does with two versions.
LEMMA OfferExact ==
    ASSUME NEW v \in Version, NEW w \in Version
    PROVE  /\ Older(v, w) => CompareVersion(v, w) = LESS
           /\ Older(w, v) \/ w = v => CompareVersion(v, w) # LESS
<1>0. Len(v) \in Nat /\ Len(w) \in Nat
  BY DEF Version
<1>v. /\ \A j \in 1 .. Len(v) : v[j].val \in Int
      /\ \A j \in 1 .. Len(w) : w[j].val \in Int
  BY ComponentType
<1>1. ASSUME Older(v, w) PROVE CompareVersion(v, w) = LESS
  <2>1. PICK i \in 1 .. Len(w) : /\ i <= Len(v) + 1
                                 /\ \A j \in 1 .. i - 1 : v[j].val = w[j].val
                                 /\ i = Len(v) + 1 \/ v[i].val < w[i].val
    BY <1>1 DEF Older
  <2>2. v # w
    BY <1>0, <1>v, <2>1
  <2>3. i \in 1 .. Len(v) + 1 /\ \A j \in 1 .. i - 1 : j <= Len(w) /\ v[j].val = w[j].val
    BY <1>0, <2>1
  <2> QED BY <1>0, <2>1, <2>2, <2>3, FirstDifference
<1>2. ASSUME Older(w, v) PROVE CompareVersion(v, w) # LESS
  <2>1. PICK i \in 1 .. Len(v) : /\ i <= Len(w) + 1
                                 /\ \A j \in 1 .. i - 1 : w[j].val = v[j].val
                                 /\ i = Len(w) + 1 \/ w[i].val < v[i].val
    BY <1>2 DEF Older
  <2>2. v # w
    BY <1>0, <1>v, <2>1
  <2>3. i \in 1 .. Len(v) + 1 /\ \A j \in 1 .. i - 1 : j <= Len(w) /\ v[j].val = w[j].val
    BY <1>0, <2>1
  <2>4. CompareVersion(v, w) = GREATER
    BY <1>0, <2>1, <2>2, <2>3, FirstDifference
  <2> QED BY <2>4 DEF GREATER, LESS
<1>3. ASSUME w = v PROVE CompareVersion(v, w) # LESS
  <2>1. CompareVersion(v, w) = EQUAL
    BY <1>3 DEF CompareVersion
  <2> QED BY <2>1 DEF EQUAL, LESS
<1> QED BY <1>1, <1>2, <1>3

-----------------------------------------------------------------------------
(* packetReadWriter: writing.                                               *)

\* What the sequence of writes has produced, and what it begins with.
Wrote == [out : Seq(Byte), written : Seq(Packet)]
Nothing == [out |-> <<>>, written |-> <<>>]

\* A length that is not refused has two bytes, from which Read gets it back.
LEMMA TwoBytes ==
    ASSUME NEW l \in Nat, l <= MaxPacket
    PROVE  l \div B \in Byte /\ l % B \in Byte /\ ((l \div B) * B) + (l % B) = l
<1>1. B \in Nat \ {0}
  BY BAssumption
<1>2. l = B * (l \div B) + (l % B) /\ l % B \in 0 .. B - 1 /\ l \div B \in Nat
  BY <1>1, Division
<1>3. ((l \div B) * B) + (l % B) = l
  BY <1>1, <1>2
<1>4. l \div B < B
  <2> DEFINE q == l \div B
  <2>1. q \in Nat /\ B * q <= l
    BY <1>1, <1>2
  <2>2. l < B * B
    BY <1>1 DEF MaxPacket
  <2> HIDE DEF q
  <2>3. B * q < B * B
    BY <1>1, <2>1, <2>2
  <2>4. q < B
    BY <1>1, <2>1, <2>3
  <2> QED BY <2>4 DEF q
<1> QED BY <1>1, <1>2, <1>3, <1>4 DEF Byte

\* A frame is a header of two bytes and the packet.
LEMMA FrameLayout ==
    ASSUME NEW p \in Packet, Len(p) <= MaxPacket
    PROVE  /\ Frame(p) \in Seq(Byte) /\ Len(Frame(p)) = 2 + Len(p)
           /\ Frame(p)[1] = Len(p) \div B /\ Frame(p)[2] = Len(p) % B
           /\ \A i \in 1 .. Len(p) : Frame(p)[2 + i] = p[i]
<1>1. Len(p) \in Nat /\ p \in Seq(Byte)
  BY DEF Packet
<1> DEFINE h == <<Len(p) \div B, Len(p) % B>>
<1>2. Len(p) \div B \in Byte /\ Len(p) % B \in Byte
  BY <1>1, TwoBytes
<1>3. h \in Seq(Byte) /\ Len(h) = 2 /\ h[1] = Len(p) \div B /\ h[2] = Len(p) % B
  BY <1>2
<1>4. Frame(p) = h \o p
  BY DEF Frame
<1> HIDE DEF h
<1>5. /\ h \o p \in Seq(Byte) /\ Len(h \o p) = Len(h) + Len(p)
      /\ \A i \in 1 .. Len(h) + Len(p) : (h \o p)[i] = IF i <= Len(h) THEN h[i] ELSE p[i - Len(h)]
  BY <1>1, <1>3, ConcatProperties
<1>6. (h \o p)[1] = h[1] /\ (h \o p)[2] = h[2]
  BY <1>1, <1>3, <1>5
<1>7. ASSUME NEW i \in 1 .. Len(p) PROVE (h \o p)[2 + i] = p[i]
  <2>1. 2 + i \in 1 .. Len(h) + Len(p) /\ ~(2 + i <= Len(h)) /\ (2 + i) - Len(h) = i
    BY <1>1, <1>3
  <2> QED BY <1>5, <2>1
<1> QED BY <1>3, <1>4, <1>5, <1>6, <1>7

LEMMA WriteType ==
    ASSUME NEW w \in Wrote, NEW p \in Packet
    PROVE  Write(w, p) \in Wrote
<1>1. CASE Len(p) > MaxPacket
  BY <1>1 DEF Write
<1>2. CASE ~(Len(p) > MaxPacket)
  <2>1. MaxPacket \in Int /\ Len(p) \in Nat
    <3>1. B * B \in Nat
      BY BAssumption
    <3> QED BY <3>1 DEF MaxPacket, Packet
  <2>2. Frame(p) \in Seq(Byte)
    BY <1>2, <2>1, FrameLayout
  <2>3. w.out \in Seq(Byte) /\ w.written \in Seq(Packet)
    BY DEF Wrote
  <2>4. w.out \o Frame(p) \in Seq(Byte) /\ Append(w.written, p) \in Seq(Packet)
    BY <2>2, <2>3, ConcatProperties, AppendProperties
  <2> QED BY <1>2, <2>4 DEF Write, Wrote
<1> QED BY <1>1, <1>2

\* f is the sequence of the writes of ps, up to n.
Writes(f, ps, n) ==
    /\ f[0] = Nothing
    /\ \A k \in 1 .. n : f[k] = Write(f[k - 1], ps[k])

\* The sequence of writes is well defined.
LEMMA WriteLoop ==
    ASSUME NEW ps \in Seq(Packet)
    PROVE  \E f : WriteAll(ps) = f[Len(ps)] /\ Writes(f, ps, Len(ps))
<1> DEFINE D == 0 .. Len(ps)
           X == Wrote
           rank == [n \in D |-> n]
           Def(g, n) == IF n = 0 THEN Nothing ELSE Write(g[n - 1], ps[n])
           F == [n \in D |-> [g \in [D -> X] |-> Def(g, n)]]
           f == CHOOSE f : f = [n \in D |-> Def(f, n)]
<1>0. Len(ps) \in Nat
  OBVIOUS
<1>1. rank \in [D -> 0 .. Len(ps)]
  OBVIOUS
<1>2. ASSUME NEW n \in D, NEW g \in [D -> X] PROVE Def(g, n) \in X
  <2>1. CASE n = 0
    BY <2>1 DEF Nothing, Wrote
  <2>2. CASE n # 0
    <3>1. n - 1 \in D /\ n \in 1 .. Len(ps)
      BY <1>0, <2>2
    <3>2. g[n - 1] \in Wrote /\ ps[n] \in Packet
      BY <3>1, ElementOfSeq
    <3>3. Write(g[n - 1], ps[n]) \in Wrote
      BY <3>2, WriteType
    <3> QED BY <2>2, <3>3
  <2> QED BY <2>1, <2>2
<1> HIDE DEF X
<1>3. F \in [D -> [[D -> X] -> X]]
  BY <1>2
<1>4. ASSUME NEW i \in D, NEW g \in [D -> X], NEW h \in [D -> X],
             \A j \in D : rank[j] < rank[i] => g[j] = h[j]
      PROVE  F[i][g] = F[i][h]
  <2>1. i # 0 => g[i - 1] = h[i - 1]
    <3> SUFFICES ASSUME i # 0 PROVE g[i - 1] = h[i - 1]
      OBVIOUS
    <3>1. i - 1 \in D /\ rank[i - 1] < rank[i]
      BY <1>0
    <3> QED BY <1>4, <3>1
  <2>2. Def(g, i) = Def(h, i)
    BY <2>1
  <2> QED BY <2>2
<1>5. PICK g \in [D -> X] : \A i \in D : g[i] = F[i][g]
  <2>1. X # {}
    <3>1. Nothing \in X
      BY DEF X, Wrote, Nothing
    <3> QED BY <3>1
  <2> HIDE DEF D, rank, F
  <2>2. \A i \in D : \A g, h \in [D -> X] :
            (\A j \in D : rank[j] < rank[i] => g[j] = h[j]) => F[i][g] = F[i][h]
    BY <1>4
  <2>3. Recursive(D, X, Len(ps), rank, F)
    BY <1>0, <1>1, <1>3, <2>1, <2>2 DEF Recursive
  <2> QED BY <2>3, Recursion
<1>6. g = [n \in D |-> Def(g, n)]
  BY <1>5
<1>7. f = [n \in D |-> Def(f, n)]
  <2> HIDE DEF D
  <2> QED BY <1>6
<1>8. WriteAll(ps) = f[Len(ps)]
  BY DEF WriteAll, Nothing
<1> HIDE DEF f
<1>9. \A n \in D : f[n] = Def(f, n)
  BY <1>7
<1>10. f[0] = Nothing
  BY <1>0, <1>9
<1>11. ASSUME NEW k \in 1 .. Len(ps) PROVE f[k] = Write(f[k - 1], ps[k])
  BY <1>0, <1>9
<1> QED BY <1>8, <1>10, <1>11 DEF Writes

\* Two sequences of writes agree as long as they write the same packets.
LEMMA SameWrites ==
    ASSUME NEW f, NEW g, NEW ps, NEW qs, NEW n \in Nat, Writes(f, ps, n), Writes(g, qs, n),
           \A k \in 1 .. n : ps[k] = qs[k]
    PROVE  f[n] = g[n]
<1> DEFINE S == {k \in Nat : k <= n => f[k] = g[k]}
<1>1. S \in SUBSET Nat /\ 0 \in S
  BY DEF Writes
<1>2. ASSUME NEW k \in S PROVE k + 1 \in S
  <2> SUFFICES ASSUME k + 1 <= n PROVE f[k + 1] = g[k + 1]
    OBVIOUS
  <2>1. k + 1 \in 1 .. n /\ (k + 1) - 1 = k /\ f[k] = g[k]
    OBVIOUS
  <2>2. f[k + 1] = Write(f[(k + 1) - 1], ps[k + 1]) /\ g[k + 1] = Write(g[(k + 1) - 1], qs[k + 1])
    BY <2>1 DEF Writes
  <2> QED BY <2>1, <2>2
<1> HIDE DEF S
<1>3. S = Nat
  BY <1>1, <1>2, SetInduction
<1>4. n \in S
  BY <1>3
<1> QED BY <1>4 DEF S

\* WriteAll(ps) is what the first packets make and one more write.
LEMMA WriteStep ==
    ASSUME NEW ps \in Seq(Packet), NEW n \in 1 .. Len(ps)
    PROVE  WriteAll(SubSeq(ps, 1, n)) = Write(WriteAll(SubSeq(ps, 1, n - 1)), ps[n])
<1>0. Len(ps) \in Nat /\ n \in Nat /\ n - 1 \in 0 .. Len(ps) /\ n \in 0 .. Len(ps)
  OBVIOUS
<1>1. PICK f : WriteAll(ps) = f[Len(ps)] /\ Writes(f, ps, Len(ps))
  BY WriteLoop
<1>2. ASSUME NEW m \in 0 .. Len(ps) PROVE WriteAll(SubSeq(ps, 1, m)) = f[m]
  <2> DEFINE qs == SubSeq(ps, 1, m)
  <2>1. qs \in Seq(Packet) /\ Len(qs) = m /\ \A k \in 1 .. m : qs[k] = ps[k]
    BY <1>0
  <2> HIDE DEF qs
  <2>2. PICK g : WriteAll(qs) = g[m] /\ Writes(g, qs, m)
    BY <2>1, WriteLoop
  <2>3. Writes(f, ps, m)
    BY <1>0, <1>1 DEF Writes
  <2>4. g[m] = f[m]
    BY <2>1, <2>2, <2>3, SameWrites
  <2> QED BY <2>2, <2>4 DEF qs
<1>3. f[n] = Write(f[n - 1], ps[n])
  BY <1>1 DEF Writes
<1> QED BY <1>0, <1>2, <1>3

LEMMA WriteNone == WriteAll(<<>>) = Nothing
<1>1. <<>> \in Seq(Packet) /\ Len(<<>>) = 0
  OBVIOUS
<1>2. PICK f : WriteAll(<<>>) = f[0] /\ Writes(f, <<>>, 0)
  BY <1>1, WriteLoop
<1> QED BY <1>2 DEF Writes

\* The first n packets, and all of them.
LEMMA Firsts ==
    ASSUME NEW S, NEW ps \in Seq(S)
    PROVE  /\ SubSeq(ps, 1, 0) = <<>> /\ SubSeq(ps, 1, Len(ps)) = ps
           /\ \A n \in 0 .. Len(ps) : /\ SubSeq(ps, 1, n) \in Seq(S) /\ Len(SubSeq(ps, 1, n)) = n
                                      /\ \A k \in 1 .. n : SubSeq(ps, 1, n)[k] = ps[k]
<1>1. SubSeq(ps, 1, 0) = <<>>
  BY SubSeqEmpty
<1>2. SubSeq(ps, 1, Len(ps)) = ps
  BY SubSeqFull
<1>3. \A n \in 0 .. Len(ps) : /\ SubSeq(ps, 1, n) \in Seq(S) /\ Len(SubSeq(ps, 1, n)) = n
                              /\ \A k \in 1 .. n : SubSeq(ps, 1, n)[k] = ps[k]
  OBVIOUS
<1> QED BY <1>1, <1>2, <1>3

\* The packets that Write does not refuse.
Fitting == {p \in Packet : Len(p) <= MaxPacket}

\* The packets that were not refused, written alone, make the same stream.
LEMMA WrittenAlone ==
    ASSUME NEW ps \in Seq(Packet)
    PROVE  /\ WriteAll(ps) \in Wrote /\ WriteAll(ps).written \in Seq(Fitting)
           /\ WriteAll(WriteAll(ps).written) = WriteAll(ps)
<1> DEFINE A(n) == WriteAll(SubSeq(ps, 1, n))
           Alone(a) == a \in Wrote /\ a.written \in Seq(Fitting) /\ WriteAll(a.written) = a
           S == {n \in 0 .. Len(ps) : Alone(A(n))}
<1>0. Len(ps) \in Nat
  OBVIOUS
<1>1. 0 \in S
  <2>1. A(0) = Nothing
    BY Firsts, WriteNone
  <2>2. Alone(Nothing)
    BY WriteNone DEF Nothing, Wrote
  <2> HIDE DEF A, Alone
  <2> QED BY <1>0, <2>1, <2>2
<1>2. ASSUME NEW n \in 0 .. Len(ps) - 1, n \in S PROVE n + 1 \in S
  <2>1. n + 1 \in 1 .. Len(ps) /\ (n + 1) - 1 = n /\ n + 1 \in 0 .. Len(ps)
    BY <1>0
  <2>2. A(n + 1) = Write(A(n), ps[n + 1])
    BY <2>1, WriteStep
  <2> DEFINE a == A(n)
             p == ps[n + 1]
  <2>3. p \in Packet
    BY <2>1, ElementOfSeq
  <2>4. Alone(a)
    BY <1>2
  <2> HIDE DEF A, a, p
  <2>5. Alone(Write(a, p))
    <3>1. CASE Len(p) > MaxPacket
      BY <2>4, <3>1 DEF Write
    <3>2. CASE ~(Len(p) > MaxPacket)
      <4>1. MaxPacket \in Int /\ Len(p) \in Nat
        <5>1. B * B \in Nat
          BY BAssumption
        <5> QED BY <2>3, <5>1 DEF MaxPacket, Packet
      <4>2. p \in Fitting
        BY <2>3, <3>2, <4>1 DEF Fitting
      <4>3. a.written \in Seq(Packet) /\ a.written \in Seq(Fitting)
        BY <2>4 DEF Wrote
      <4> DEFINE qs == Append(a.written, p)
                 m == Len(a.written)
      <4>4. Write(a, p) \in Wrote /\ Write(a, p).written = qs
        <5>1. Write(a, p) \in Wrote
          BY <2>3, <2>4, WriteType
        <5>2. Write(a, p).written = qs
          BY <3>2 DEF Write
        <5> QED BY <5>1, <5>2
      <4>5. qs \in Seq(Fitting) /\ qs \in Seq(Packet) /\ Len(qs) = m + 1 /\ qs[m + 1] = p
        BY <2>3, <4>2, <4>3, AppendProperties
      <4>6. SubSeq(qs, 1, m) = a.written /\ SubSeq(qs, 1, m + 1) = qs
        <5>1. m \in Nat /\ \A k \in 1 .. m : qs[k] = a.written[k]
          BY <2>3, <4>3, AppendProperties
        <5>2. /\ SubSeq(qs, 1, m) \in Seq(Packet) /\ Len(SubSeq(qs, 1, m)) = m
              /\ \A k \in 1 .. m : SubSeq(qs, 1, m)[k] = qs[k]
          BY <4>5, <5>1, Firsts
        <5>3. SubSeq(qs, 1, m) = a.written
          <6> DEFINE t == SubSeq(qs, 1, m)
          <6>1. Len(t) = Len(a.written) /\ \A k \in 1 .. Len(t) : t[k] = a.written[k]
            BY <5>1, <5>2
          <6> HIDE DEF t
          <6> QED BY <4>3, <5>2, <6>1, SeqEqual DEF t
        <5> QED BY <4>5, <5>3, Firsts
      <4> HIDE DEF qs
      <4>7. m + 1 \in 1 .. Len(qs) /\ (m + 1) - 1 = m
        BY <4>3, <4>5
      <4> HIDE DEF m
      <4>8. WriteAll(SubSeq(qs, 1, m + 1)) = Write(WriteAll(SubSeq(qs, 1, (m + 1) - 1)), qs[m + 1])
        BY <4>5, <4>7, WriteStep
      <4>9. WriteAll(qs) = Write(a, p)
        BY <2>4, <4>5, <4>6, <4>7, <4>8
      <4> QED BY <4>4, <4>5, <4>9
    <3> QED BY <3>1, <3>2
  <2> HIDE DEF Alone
  <2>6. Alone(A(n + 1))
    BY <2>2, <2>5 DEF a, p
  <2> QED BY <2>1, <2>6
<1> HIDE DEF S
<1>3. Len(ps) \in S
  <2>1. \A n \in 0 .. Len(ps) - 1 : n \in S => n + 1 \in S
    BY <1>2
  <2>2. \A n \in 0 .. Len(ps) : n \in S
    BY <1>0, <1>1, <2>1, UptoInduction, Zenon
  <2> QED BY <1>0, <2>2
<1>4. Alone(WriteAll(ps))
  <2>1. A(Len(ps)) = WriteAll(ps)
    BY Firsts
  <2> HIDE DEF A, Alone
  <2> QED BY <1>3, <2>1 DEF S
<1> QED BY <1>4

\* The packet p is in the stream s, behind its byte o.
Holds(s, o, p) ==
    /\ o + 2 + Len(p) <= Len(s)
    /\ (s[o + 1] * B) + s[o + 2] = Len(p)
    /\ \A i \in 1 .. Len(p) : s[o + 2 + i] = p[i]

\* What is written later changes nothing, and what is written is there.
LEMMA HoldsMore ==
    ASSUME NEW s \in Seq(Byte), NEW t \in Seq(Byte), NEW o \in Nat, NEW p \in Packet, Holds(s, o, p)
    PROVE  Holds(s \o t, o, p)
<1>1. Len(p) \in Nat /\ Len(s) \in Nat /\ Len(t) \in Nat
  BY DEF Packet
<1>2. Len(s \o t) = Len(s) + Len(t) /\ \A i \in 1 .. Len(s) : (s \o t)[i] = s[i]
  BY <1>1, ConcatProperties
<1>3. o + 2 + Len(p) <= Len(s)
  BY DEF Holds
<1>4. o + 1 \in 1 .. Len(s) /\ o + 2 \in 1 .. Len(s) /\ \A i \in 1 .. Len(p) : o + 2 + i \in 1 .. Len(s)
  BY <1>1, <1>3
<1>5. o + 2 + Len(p) <= Len(s \o t)
  BY <1>1, <1>2, <1>3
<1> QED BY <1>2, <1>4, <1>5 DEF Holds

LEMMA HoldsLast ==
    ASSUME NEW s \in Seq(Byte), NEW p \in Fitting
    PROVE  /\ s \o Frame(p) \in Seq(Byte)
           /\ Len(s \o Frame(p)) = Len(s) + 2 + Len(p)
           /\ Holds(s \o Frame(p), Len(s), p)
<1>1. p \in Packet /\ Len(p) <= MaxPacket /\ Len(p) \in Nat /\ Len(s) \in Nat
  BY DEF Fitting, Packet
<1> DEFINE t == Frame(p)
<1>2. /\ t \in Seq(Byte) /\ Len(t) = 2 + Len(p)
      /\ t[1] = Len(p) \div B /\ t[2] = Len(p) % B
      /\ \A i \in 1 .. Len(p) : t[2 + i] = p[i]
  BY <1>1, FrameLayout
<1>3. (t[1] * B) + t[2] = Len(p)
  BY <1>1, <1>2, TwoBytes
<1> HIDE DEF t
<1>4. /\ s \o t \in Seq(Byte) /\ Len(s \o t) = Len(s) + Len(t)
      /\ \A i \in 1 .. Len(t) : (s \o t)[Len(s) + i] = t[i]
  <2>0. t \in Seq(Byte)
    BY <1>2
  <2>1. /\ s \o t \in Seq(Byte) /\ Len(s \o t) = Len(s) + Len(t)
        /\ \A i \in 1 .. Len(s) + Len(t) : (s \o t)[i] = IF i <= Len(s) THEN s[i] ELSE t[i - Len(s)]
    BY <2>0, ConcatProperties
  <2>2. ASSUME NEW i \in 1 .. Len(t) PROVE (s \o t)[Len(s) + i] = t[i]
    <3>1. Len(s) + i \in 1 .. Len(s) + Len(t) /\ ~(Len(s) + i <= Len(s)) /\ (Len(s) + i) - Len(s) = i
      BY <1>1, <1>2
    <3> QED BY <2>1, <3>1
  <2> QED BY <2>1, <2>2
<1>5. Len(s \o t) = Len(s) + 2 + Len(p)
  BY <1>1, <1>2, <1>4
<1>6. (s \o t)[Len(s) + 1] = t[1] /\ (s \o t)[Len(s) + 2] = t[2]
  BY <1>1, <1>2, <1>4
<1>7. ASSUME NEW i \in 1 .. Len(p) PROVE (s \o t)[Len(s) + 2 + i] = p[i]
  <2>1. 2 + i \in 1 .. Len(t) /\ Len(s) + (2 + i) = Len(s) + 2 + i
    BY <1>1, <1>2
  <2>2. (s \o t)[Len(s) + (2 + i)] = t[2 + i]
    BY <1>4, <2>1
  <2> QED BY <1>2, <2>1, <2>2
<1>8. Len(s) + 2 + Len(p) <= Len(s \o t)
  BY <1>1, <1>5
<1>9. Holds(s \o t, Len(s), p)
  BY <1>3, <1>6, <1>7, <1>8 DEF Holds
<1> QED BY <1>4, <1>5, <1>9 DEF t

\* One more packet: the stream is longer by its frame.
LEMMA OutStep ==
    ASSUME NEW ps \in Seq(Fitting), NEW n \in 0 .. Len(ps) - 1
    PROVE  /\ WriteAll(SubSeq(ps, 1, n)).out \in Seq(Byte) /\ ps[n + 1] \in Fitting
           /\ WriteAll(SubSeq(ps, 1, n + 1)).out = WriteAll(SubSeq(ps, 1, n)).out \o Frame(ps[n + 1])
<1>1. Len(ps) \in Nat /\ n + 1 \in 1 .. Len(ps) /\ (n + 1) - 1 = n /\ n \in 0 .. Len(ps)
  OBVIOUS
<1>2. ps \in Seq(Packet) /\ ps[n + 1] \in Fitting
  <2>1. ps[n + 1] \in Fitting
    BY <1>1, ElementOfSeq
  <2>2. ps \in Seq(Packet)
    BY SeqMonotonic DEF Fitting
  <2> QED BY <2>1, <2>2
<1>3. WriteAll(SubSeq(ps, 1, n + 1)) = Write(WriteAll(SubSeq(ps, 1, n)), ps[n + 1])
  BY <1>1, <1>2, WriteStep
<1>4. WriteAll(SubSeq(ps, 1, n)) \in Wrote
  <2>1. SubSeq(ps, 1, n) \in Seq(Packet)
    BY <1>1, <1>2, Firsts
  <2> QED BY <2>1, WrittenAlone
<1>5. ~(Len(ps[n + 1]) > MaxPacket)
  <2>1. MaxPacket \in Int
    <3>1. B * B \in Nat
      BY BAssumption
    <3> QED BY <3>1 DEF MaxPacket
  <2> QED BY <1>2, <2>1 DEF Fitting, Packet
<1> DEFINE a == WriteAll(SubSeq(ps, 1, n))
<1> HIDE DEF a
<1>6. Write(a, ps[n + 1]).out = a.out \o Frame(ps[n + 1]) /\ (a \in Wrote => a.out \in Seq(Byte))
  BY <1>5 DEF Write, Wrote
<1> QED BY <1>2, <1>3, <1>4, <1>6 DEF a

\* The stream of packets that are not refused: where each is, and that it is.
LEMMA Layout ==
    ASSUME NEW ps \in Seq(Fitting)
    PROVE  /\ Behind(ps, 0) = 0 /\ Behind(ps, Len(ps)) = Len(WriteAll(ps).out)
           /\ WriteAll(ps).out \in Seq(Byte)
           /\ \A k \in 0 .. Len(ps) : Behind(ps, k) \in Nat
           /\ \A k \in 0 .. Len(ps) - 1 :
                /\ Behind(ps, k + 1) = Behind(ps, k) + 2 + Len(ps[k + 1])
                /\ Holds(WriteAll(ps).out, Behind(ps, k), ps[k + 1])
<1> DEFINE N == Len(ps)
           Out(n) == WriteAll(SubSeq(ps, 1, n)).out
           S == {n \in 0 .. N : /\ Out(n) \in Seq(Byte)
                                /\ \A k \in 0 .. N - 1 : k < n => Holds(Out(n), Behind(ps, k), ps[k + 1])}
<1>0. N \in Nat
  OBVIOUS
<1>1. Out(0) = <<>> /\ Out(N) = WriteAll(ps).out
  <2>1. SubSeq(ps, 1, 0) = <<>> /\ SubSeq(ps, 1, N) = ps
    BY Firsts
  <2>2. WriteAll(<<>>).out = <<>>
    BY WriteNone DEF Nothing
  <2> QED BY <2>1, <2>2
<1>2. ASSUME NEW n \in 0 .. N - 1
      PROVE  Out(n) \in Seq(Byte) /\ ps[n + 1] \in Fitting /\ Out(n + 1) = Out(n) \o Frame(ps[n + 1])
  BY OutStep
<1>3. \A n : Behind(ps, n) = Len(Out(n))
  BY DEF Behind
<1> HIDE DEF Out, N
<1>4. 0 \in S
  <2>1. \A k \in 0 .. N - 1 : ~(k < 0)
    BY <1>0
  <2>2. <<>> \in Seq(Byte)
    BY EmptySeq
  <2>3. Out(0) \in Seq(Byte)
    BY <1>1, <2>2, Zenon
  <2>4. 0 \in 0 .. N
    BY <1>0
  <2> QED BY <2>1, <2>3, <2>4
<1>5. ASSUME NEW n \in 0 .. N - 1, n \in S PROVE n + 1 \in S
  <2> DEFINE s == Out(n)
             p == ps[n + 1]
  <2>1. n + 1 \in 0 .. N /\ n \in Nat
    BY <1>0
  <2>2. s \in Seq(Byte) /\ p \in Fitting /\ Out(n + 1) = s \o Frame(p)
    BY <1>2
  <2>3. /\ s \o Frame(p) \in Seq(Byte)
        /\ Len(s \o Frame(p)) = Len(s) + 2 + Len(p)
        /\ Holds(s \o Frame(p), Len(s), p)
    <3> HIDE DEF s, p
    <3> QED BY <2>2, HoldsLast
  <2>4. ASSUME NEW k \in 0 .. N - 1, k < n + 1 PROVE Holds(Out(n + 1), Behind(ps, k), ps[k + 1])
    <3>1. CASE k = n
      BY <1>3, <2>2, <2>3, <3>1
    <3>2. CASE k < n
      <4>1. Holds(s, Behind(ps, k), ps[k + 1])
        BY <1>5, <3>2
      <4>2. Behind(ps, k) \in Nat /\ ps[k + 1] \in Packet
        <5>1. Out(k) \in Seq(Byte) /\ ps[k + 1] \in Fitting
          BY <1>2
        <5> QED BY <1>3, <5>1 DEF Fitting
      <4>3. Frame(p) \in Seq(Byte)
        <5>1. p \in Packet /\ Len(p) <= MaxPacket
          BY <2>2 DEF Fitting
        <5> QED BY <5>1, FrameLayout
      <4> HIDE DEF s, p
      <4> QED BY <2>2, <4>1, <4>2, <4>3, HoldsMore
    <3> QED BY <1>0, <2>1, <2>4, <3>1, <3>2
  <2> HIDE DEF s, p
  <2> QED BY <2>1, <2>2, <2>3, <2>4
<1> HIDE DEF S
<1>6. N \in S
  <2>1. \A n \in 0 .. N - 1 : n \in S => n + 1 \in S
    BY <1>5
  <2>2. \A n \in 0 .. N : n \in S
    BY <1>0, <1>4, <2>1, UptoInduction, Zenon
  <2> QED BY <1>0, <2>2
<1>7. /\ Out(N) \in Seq(Byte)
      /\ \A k \in 0 .. N - 1 : Holds(Out(N), Behind(ps, k), ps[k + 1])
  BY <1>0, <1>6 DEF S
<1>8. ASSUME NEW k \in 0 .. N PROVE Behind(ps, k) \in Nat
  <2>1. Out(k) \in Seq(Byte)
    <3>1. CASE k = N
      BY <1>7, <3>1
    <3>2. CASE k # N
      BY <1>0, <1>2, <3>2
    <3> QED BY <3>1, <3>2
  <2> QED BY <1>3, <2>1
<1>9. ASSUME NEW k \in 0 .. N - 1 PROVE Behind(ps, k + 1) = Behind(ps, k) + 2 + Len(ps[k + 1])
  <2> DEFINE s == Out(k)
             p == ps[k + 1]
  <2>1. s \in Seq(Byte) /\ p \in Fitting /\ Out(k + 1) = s \o Frame(p)
    BY <1>2
  <2>2. Len(Out(k + 1)) = Len(s) + 2 + Len(p)
    <3> HIDE DEF s, p
    <3> QED BY <2>1, HoldsLast
  <2> QED BY <1>3, <2>2
<1>10. Behind(ps, 0) = 0
  BY <1>1, <1>3
<1>11. Behind(ps, N) = Len(WriteAll(ps).out) /\ WriteAll(ps).out \in Seq(Byte)
  BY <1>1, <1>3, <1>7
<1> QED BY <1>1, <1>7, <1>8, <1>9, <1>10, <1>11 DEF N

\* The packets follow each other.
LEMMA BehindGrows ==
    ASSUME NEW ps \in Seq(Fitting), NEW j \in 0 .. Len(ps), NEW k \in 0 .. Len(ps), j < k
    PROVE  Behind(ps, j) + 2 <= Behind(ps, k)
<1> DEFINE N == Len(ps)
           b == [n \in 0 .. N |-> Behind(ps, n)]
           S == {n \in 0 .. N : j < n => b[j] + 2 <= b[n]}
<1>0. N \in Nat
  OBVIOUS
<1>1. \A n \in 0 .. N : b[n] \in Nat /\ b[n] = Behind(ps, n)
  BY Layout
<1>2. ASSUME NEW n \in 0 .. N - 1 PROVE b[n] + 2 <= b[n + 1]
  <2>1. n \in 0 .. N /\ n + 1 \in 0 .. N /\ n + 1 \in 1 .. N
    BY <1>0
  <2>2. b[n + 1] = b[n] + 2 + Len(ps[n + 1])
    BY <1>1, <2>1, Layout
  <2>3. Len(ps[n + 1]) \in Nat
    <3>1. ps[n + 1] \in Fitting
      BY <2>1, ElementOfSeq
    <3> QED BY <3>1 DEF Fitting, Packet
  <2> QED BY <1>1, <2>1, <2>2, <2>3
<1> HIDE DEF b, N
<1>3. 0 \in S
  BY <1>0 DEF N
<1>4. ASSUME NEW n \in 0 .. N - 1, n \in S PROVE n + 1 \in S
  <2>1. n + 1 \in 0 .. N /\ n \in 0 .. N /\ j \in 0 .. N
    BY <1>0 DEF N
  <2>2. b[n] + 2 <= b[n + 1] /\ b[n] \in Nat /\ b[n + 1] \in Nat /\ b[j] \in Nat
    BY <1>1, <1>2, <2>1
  <2>3. j < n + 1 => b[j] + 2 <= b[n + 1]
    <3>1. CASE j < n
      BY <1>4, <2>2, <3>1
    <3>2. CASE j = n
      BY <2>2, <3>2
    <3> QED BY <2>1, <3>1, <3>2
  <2> QED BY <2>1, <2>3
<1> HIDE DEF S
<1>5. k \in S
  <2>1. \A n \in 0 .. N - 1 : n \in S => n + 1 \in S
    BY <1>4
  <2>2. \A n \in 0 .. N : n \in S
    BY <1>0, <1>3, <2>1, UptoInduction, Zenon
  <2> QED BY <2>2 DEF N
<1> QED BY <1>1, <1>5 DEF S, N

-----------------------------------------------------------------------------
(* packetReadWriter: reading.                                               *)

ReadEnd == {"EOF", "ErrUnexpectedEOF", "panic"}
Read == [got : Seq(Packet), end : ReadEnd]
NoMore(e) == [got |-> <<>>, end |-> e]

\* One Read, from byte i of s, in terms of what the later ones return.
Got(s, buf, f, i) ==
    LET left == Len(s) + 1 - i
        l    == s[i] * B + s[i + 1]
    IN  CASE left = 0                -> [got |-> <<>>, end |-> "EOF"]
          [] left = 1                -> [got |-> <<>>, end |-> "ErrUnexpectedEOF"]
          [] left > 1 /\ l > buf      -> [got |-> <<>>, end |-> "panic"]
          [] left > 1 /\ l <= buf /\ left < l + 2
                                     -> [got |-> <<>>,
                                         end |-> IF left = 2 THEN "EOF" ELSE "ErrUnexpectedEOF"]
          [] OTHER ->
                LET rest == f[i + 2 + l]
                IN  [got |-> <<SubSeq(s, i + 2, i + 1 + l)>> \o rest.got, end |-> rest.end]

\* The packet that one Read returns, in front of what the later ones return.
Before(p, r) == [got |-> <<p>> \o r.got, end |-> r.end]

\* The cases of Read.
LEMMA ReadCases ==
    ASSUME NEW s \in Seq(Byte), NEW buf \in Nat, NEW i \in 1 .. Len(s) + 1
    PROVE  LET left == Len(s) + 1 - i
               l    == s[i] * B + s[i + 1]
           IN  /\ left = 0 => \A f : Got(s, buf, f, i) = NoMore("EOF")
               /\ left = 1 => \A f : Got(s, buf, f, i) = NoMore("ErrUnexpectedEOF")
               /\ left > 1 => l \in Nat
               /\ left > 1 /\ l > buf => \A f : Got(s, buf, f, i) = NoMore("panic")
               /\ left = 2 /\ l <= buf /\ left < l + 2 => \A f : Got(s, buf, f, i) = NoMore("EOF")
               /\ left > 2 /\ l <= buf /\ left < l + 2 =>
                        \A f : Got(s, buf, f, i) = NoMore("ErrUnexpectedEOF")
               /\ left > 1 /\ l <= buf /\ l + 2 <= left =>
                        \A f : Got(s, buf, f, i) = Before(SubSeq(s, i + 2, i + 1 + l), f[i + 2 + l])
<1> DEFINE left == Len(s) + 1 - i
           l    == s[i] * B + s[i + 1]
<1>1. left \in Nat
  OBVIOUS
<1>2. ASSUME left > 1 PROVE l \in Nat
  <2>1. i \in 1 .. Len(s) /\ i + 1 \in 1 .. Len(s)
    BY <1>2
  <2>2. s[i] \in Byte /\ s[i + 1] \in Byte
    BY <2>1, ElementOfSeq
  <2>3. s[i] \in Nat /\ s[i + 1] \in Nat /\ B \in Nat
    BY <2>2, BAssumption DEF Byte
  <2>4. s[i] * B \in Nat
    BY <2>3
  <2> QED BY <2>3, <2>4
<1> DEFINE rest(f) == Before(SubSeq(s, i + 2, i + 1 + l), f[i + 2 + l])
<1>3. ASSUME NEW f
      PROVE  Got(s, buf, f, i) =
                CASE left = 0 -> NoMore("EOF")
                  [] left = 1 -> NoMore("ErrUnexpectedEOF")
                  [] left > 1 /\ l > buf -> NoMore("panic")
                  [] left > 1 /\ l <= buf /\ left < l + 2 ->
                        NoMore(IF left = 2 THEN "EOF" ELSE "ErrUnexpectedEOF")
                  [] OTHER -> rest(f)
  BY DEF Got, NoMore, Before
<1> HIDE DEF left, l, rest
<1>4. left = 0 => \A f : Got(s, buf, f, i) = NoMore("EOF")
  BY <1>1, <1>3
<1>5. left = 1 => \A f : Got(s, buf, f, i) = NoMore("ErrUnexpectedEOF")
  BY <1>1, <1>3
<1>6. left > 1 /\ l > buf => \A f : Got(s, buf, f, i) = NoMore("panic")
  BY <1>1, <1>2, <1>3
<1>7. left = 2 /\ l <= buf /\ left < l + 2 => \A f : Got(s, buf, f, i) = NoMore("EOF")
  BY <1>1, <1>2, <1>3
<1>8. left > 2 /\ l <= buf /\ left < l + 2 => \A f : Got(s, buf, f, i) = NoMore("ErrUnexpectedEOF")
  BY <1>1, <1>2, <1>3
<1>9. left > 1 /\ l <= buf /\ l + 2 <= left => \A f : Got(s, buf, f, i) = rest(f)
  BY <1>1, <1>2, <1>3
<1> QED BY <1>2, <1>4, <1>5, <1>6, <1>7, <1>8, <1>9 DEF left, l, rest

\* A packet that is read is a packet.
LEMMA SliceType ==
    ASSUME NEW s \in Seq(Byte), NEW i \in 1 .. Len(s) + 1, NEW l \in Nat, l + 2 <= Len(s) + 1 - i
    PROVE  /\ SubSeq(s, i + 2, i + 1 + l) \in Packet
           /\ Len(SubSeq(s, i + 2, i + 1 + l)) = l
           /\ \A j \in 1 .. l : SubSeq(s, i + 2, i + 1 + l)[j] = s[i + 1 + j]
           /\ i + 2 + l \in 1 .. Len(s) + 1 /\ i + 2 + l > i
<1> DEFINE m == i + 2
           n == i + 1 + l
<1>1. m \in 1 .. Len(s) + 1 /\ n \in m - 1 .. Len(s)
  OBVIOUS
<1>2. i + 2 + l \in 1 .. Len(s) + 1 /\ i + 2 + l > i
  OBVIOUS
<1>3. (IF m <= n THEN n - m + 1 ELSE 0) = l
  OBVIOUS
<1>4. \A j \in 1 .. l : m + j - 1 = i + 1 + j
  OBVIOUS
<1> HIDE DEF m, n
<1>5. /\ SubSeq(s, m, n) \in Seq(Byte)
      /\ Len(SubSeq(s, m, n)) = IF m <= n THEN n - m + 1 ELSE 0
      /\ \A j \in 1 .. (n - m + 1) : SubSeq(s, m, n)[j] = s[m + j - 1]
  BY <1>1, SubSeqProperties
<1>6. n - m + 1 = l
  BY DEF m, n
<1>7. /\ SubSeq(s, m, n) \in Packet /\ Len(SubSeq(s, m, n)) = l
      /\ \A j \in 1 .. l : SubSeq(s, m, n)[j] = s[i + 1 + j]
  <2>1. SubSeq(s, m, n) \in Packet
    BY <1>5 DEF Packet
  <2>2. Len(SubSeq(s, m, n)) = l
    BY <1>3, <1>5
  <2>3. ASSUME NEW j \in 1 .. l PROVE SubSeq(s, m, n)[j] = s[i + 1 + j]
    <3>1. SubSeq(s, m, n)[j] = s[m + j - 1] /\ m + j - 1 = i + 1 + j
      BY <1>4, <1>5, <1>6
    <3> QED BY <3>1
  <2> QED BY <2>1, <2>2, <2>3
<1> QED BY <1>2, <1>7 DEF m, n

LEMMA ReadTypes ==
    ASSUME NEW p \in Packet, NEW r \in Read
    PROVE  /\ Before(p, r) \in Read /\ Before(p, r).end = r.end
           /\ Len(Before(p, r).got) = Len(r.got) + 1 /\ Before(p, r).got[1] = p
           /\ \A j \in 1 .. Len(r.got) : Before(p, r).got[j + 1] = r.got[j]
<1> DEFINE h == <<p>>
           t == r.got
<1>1. h \in Seq(Packet) /\ Len(h) = 1 /\ h[1] = p
  OBVIOUS
<1>2. t \in Seq(Packet) /\ r.end \in ReadEnd /\ Len(t) \in Nat
  BY DEF Read
<1>3. Before(p, r) = [got |-> h \o t, end |-> r.end]
  BY DEF Before
<1> HIDE DEF h, t
<1>4. /\ h \o t \in Seq(Packet) /\ Len(h \o t) = Len(h) + Len(t)
      /\ \A j \in 1 .. Len(h) + Len(t) : (h \o t)[j] = IF j <= Len(h) THEN h[j] ELSE t[j - Len(h)]
  BY <1>1, <1>2, ConcatProperties
<1>5. Len(h \o t) = Len(t) + 1 /\ (h \o t)[1] = p
  BY <1>1, <1>2, <1>4
<1>6. ASSUME NEW j \in 1 .. Len(t) PROVE (h \o t)[j + 1] = t[j]
  <2>1. j + 1 \in 1 .. Len(h) + Len(t) /\ ~(j + 1 <= Len(h)) /\ (j + 1) - Len(h) = j
    BY <1>1, <1>2
  <2> QED BY <1>4, <2>1
<1> QED BY <1>2, <1>3, <1>4, <1>5, <1>6 DEF Read, t

LEMMA NoMoreType ==
    ASSUME NEW e \in ReadEnd
    PROVE  NoMore(e) \in Read /\ NoMore(e).end = e /\ NoMore(e).got = <<>> /\ Len(NoMore(e).got) = 0
BY EmptySeq DEF NoMore, Read

\* The sequence of reads is well defined.
LEMMA ReadLoop ==
    ASSUME NEW s \in Seq(Byte), NEW buf \in Nat
    PROVE  \E f : ReadAll(s, buf) = f[1] /\ \A i \in 1 .. Len(s) + 1 : f[i] = Got(s, buf, f, i)
<1> DEFINE N == Len(s)
           D == 1 .. Len(s) + 1
           X == Read
           rank == [i \in D |-> N + 1 - i]
           F == [i \in D |-> [g \in [D -> X] |-> Got(s, buf, g, i)]]
           f == CHOOSE f : f = [i \in D |-> Got(s, buf, f, i)]
           left(i) == Len(s) + 1 - i
           l(i) == s[i] * B + s[i + 1]
           rest(g, i) == Before(SubSeq(s, i + 2, i + 1 + l(i)), g[i + 2 + l(i)])
<1>0. N \in Nat
  OBVIOUS
<1>1. rank \in [D -> 0 .. N]
  BY <1>0
<1>2. ASSUME NEW i \in D
      PROVE  \/ \E e \in ReadEnd : \A g : Got(s, buf, g, i) = NoMore(e)
             \/ /\ l(i) \in Nat /\ l(i) + 2 <= left(i)
                /\ \A g : Got(s, buf, g, i) = rest(g, i)
  <2>1. /\ left(i) = 0 => \A g : Got(s, buf, g, i) = NoMore("EOF")
        /\ left(i) = 1 => \A g : Got(s, buf, g, i) = NoMore("ErrUnexpectedEOF")
        /\ left(i) > 1 => l(i) \in Nat
        /\ left(i) > 1 /\ l(i) > buf => \A g : Got(s, buf, g, i) = NoMore("panic")
        /\ left(i) = 2 /\ l(i) <= buf /\ left(i) < l(i) + 2 => \A g : Got(s, buf, g, i) = NoMore("EOF")
        /\ left(i) > 2 /\ l(i) <= buf /\ left(i) < l(i) + 2 =>
                \A g : Got(s, buf, g, i) = NoMore("ErrUnexpectedEOF")
        /\ left(i) > 1 /\ l(i) <= buf /\ l(i) + 2 <= left(i) => \A g : Got(s, buf, g, i) = rest(g, i)
    BY ReadCases
  <2>2. left(i) \in Nat
    BY <1>0
  <2> HIDE DEF left, l, rest
  <2>3. {"EOF", "ErrUnexpectedEOF", "panic"} = ReadEnd
    BY DEF ReadEnd
  <2>4. CASE left(i) = 0
    BY <2>1, <2>3, <2>4
  <2>5. CASE left(i) = 1
    BY <2>1, <2>3, <2>5
  <2>6. CASE left(i) > 1 /\ l(i) > buf
    BY <2>1, <2>3, <2>6
  <2>7. CASE left(i) = 2 /\ l(i) <= buf /\ left(i) < l(i) + 2
    BY <2>1, <2>3, <2>7
  <2>8. CASE left(i) > 2 /\ l(i) <= buf /\ left(i) < l(i) + 2
    BY <2>1, <2>3, <2>8
  <2>9. CASE left(i) > 1 /\ l(i) <= buf /\ l(i) + 2 <= left(i)
    BY <2>1, <2>9
  <2>10. left(i) > 1 => l(i) \in Nat
    BY <2>1
  <2> QED BY <2>2, <2>4, <2>5, <2>6, <2>7, <2>8, <2>9, <2>10
<1>3. ASSUME NEW i \in D, NEW g \in [D -> X] PROVE Got(s, buf, g, i) \in X
  <2>1. CASE \E e \in ReadEnd : \A h : Got(s, buf, h, i) = NoMore(e)
    BY <2>1, NoMoreType
  <2>2. CASE l(i) \in Nat /\ l(i) + 2 <= left(i) /\ Got(s, buf, g, i) = rest(g, i)
    <3>1. SubSeq(s, i + 2, i + 1 + l(i)) \in Packet /\ i + 2 + l(i) \in D
      <4> HIDE DEF l
      <4> QED BY <2>2, SliceType
    <3>2. g[i + 2 + l(i)] \in X
      BY <3>1
    <3> QED BY <2>2, <3>1, <3>2, ReadTypes
  <2> HIDE DEF left, l, rest
  <2> QED BY <1>2, <2>1, <2>2
<1>4. ASSUME NEW i \in D, NEW g \in [D -> X], NEW h \in [D -> X],
             \A j \in D : rank[j] < rank[i] => g[j] = h[j]
      PROVE  F[i][g] = F[i][h]
  <2>1. CASE \E e \in ReadEnd : \A k : Got(s, buf, k, i) = NoMore(e)
    BY <2>1
  <2>2. CASE l(i) \in Nat /\ l(i) + 2 <= left(i) /\ \A k : Got(s, buf, k, i) = rest(k, i)
    <3> DEFINE j == i + 2 + l(i)
    <3>1. j \in D /\ j > i
      <4> HIDE DEF l
      <4> QED BY <2>2, SliceType
    <3>2. rank[j] < rank[i]
      <4> HIDE DEF j
      <4> QED BY <1>0, <3>1
    <3>3. g[j] = h[j]
      BY <1>4, <3>1, <3>2
    <3>4. rest(g, i) = rest(h, i)
      BY <3>3
    <3>5. Got(s, buf, g, i) = Got(s, buf, h, i)
      BY <2>2, <3>4
    <3> QED BY <3>5
  <2>3. \/ \E e \in ReadEnd : \A k : Got(s, buf, k, i) = NoMore(e)
        \/ /\ l(i) \in Nat /\ l(i) + 2 <= left(i)
           /\ \A k : Got(s, buf, k, i) = rest(k, i)
    BY <1>2
  <2> HIDE DEF left, l, rest
  <2> QED BY <2>1, <2>2, <2>3
<1> HIDE DEF X
<1>5. F \in [D -> [[D -> X] -> X]]
  BY <1>3
<1>6. PICK g \in [D -> X] : \A i \in D : g[i] = F[i][g]
  <2>1. X # {}
    <3>1. NoMore("EOF") \in X
      BY NoMoreType DEF X, ReadEnd
    <3> QED BY <3>1
  <2> HIDE DEF D, rank, F, N
  <2>2. \A i \in D : \A g, h \in [D -> X] :
            (\A j \in D : rank[j] < rank[i] => g[j] = h[j]) => F[i][g] = F[i][h]
    BY <1>4
  <2>3. Recursive(D, X, N, rank, F)
    BY <1>0, <1>1, <1>5, <2>1, <2>2 DEF Recursive
  <2> QED BY <2>3, Recursion
<1>7. g = [i \in D |-> Got(s, buf, g, i)]
  BY <1>6
<1>8. f = [i \in D |-> Got(s, buf, f, i)]
  <2> HIDE DEF D
  <2> QED BY <1>7
<1>9. ReadAll(s, buf) = f[1]
  BY DEF ReadAll, Got
<1> HIDE DEF f
<1>10. \A i \in D : f[i] = Got(s, buf, f, i)
  BY <1>8
<1> QED BY <1>9, <1>10

\* The stream of the packets w, cut off, ends between two of them, or behind the
\* header of one, and all the packets from the k-th up to there fit the buffer.
EndsClean(w, k, cut, buf) ==
    \E n \in k .. Len(w) :
        /\ \A j \in k + 1 .. n : Len(w[j]) <= buf
        /\ \/ Behind(w, n) = cut
           \/ Behind(w, n) + 2 = cut /\ n < Len(w) /\ Len(w[n + 1]) \in 1 .. buf

\* What the reads from behind the k-th packet on return.
ReadFrom(w, k, cut, buf, r) ==
    /\ r \in Read /\ Len(r.got) <= Len(w) - k
    /\ \A j \in 1 .. Len(r.got) : r.got[j] = w[k + j]
    /\ r.end # "panic" => \A j \in k + 1 .. Len(w) : j <= k + Len(r.got) <=> Behind(w, j) <= cut
    /\ r.end = "panic" => Len(r.got) < Len(w) - k /\ Len(w[k + Len(r.got) + 1]) > buf
    /\ r.end = "EOF" <=> EndsClean(w, k, cut, buf)

\* Where the packets lie, in numbers.
LEMMA Places ==
    ASSUME NEW w \in Seq(Fitting), NEW k \in 0 .. Len(w)
    PROVE  /\ Behind(w, k) \in Nat
           /\ \A j \in k + 1 .. Len(w) : Behind(w, j) \in Nat /\ Behind(w, k) + 2 <= Behind(w, j)
<1>1. \A j \in 0 .. Len(w) : Behind(w, j) \in Nat
  BY Layout
<1>2. ASSUME NEW j \in k + 1 .. Len(w) PROVE Behind(w, k) + 2 <= Behind(w, j)
  <2>1. j \in 0 .. Len(w) /\ k < j
    OBVIOUS
  <2> QED BY <2>1, BehindGrows
<1> QED BY <1>1, <1>2

\* Nothing more is read when the stream ends before the next packet is complete.
LEMMA ReadNothing ==
    ASSUME NEW w \in Seq(Fitting), NEW k \in 0 .. Len(w), NEW cut \in Nat, NEW buf \in Nat,
           NEW e \in ReadEnd \ {"panic"}, \A j \in k + 1 .. Len(w) : ~(Behind(w, j) <= cut),
           e = "EOF" <=> EndsClean(w, k, cut, buf)
    PROVE  ReadFrom(w, k, cut, buf, NoMore(e))
<1>1. NoMore(e) \in Read /\ NoMore(e).end = e /\ Len(NoMore(e).got) = 0
  BY NoMoreType
<1>2. Len(w) \in Nat /\ 0 <= Len(w) - k
  OBVIOUS
<1>3. \A j \in 1 .. 0 : NoMore(e).got[j] = w[k + j]
  OBVIOUS
<1>4. \A j \in k + 1 .. Len(w) : ~(j <= k + 0)
  BY <1>2
<1> QED BY <1>1, <1>2, <1>3, <1>4 DEF ReadFrom

\* The end is not a clean one when it is neither behind packet k nor behind the
\* header that follows, and the next packet is not complete or does not fit.
LEMMA NotClean ==
    ASSUME NEW w \in Seq(Fitting), NEW k \in 0 .. Len(w), NEW cut \in Nat, NEW buf \in Nat,
           Behind(w, k) # cut, Behind(w, k) + 2 # cut \/ (k < Len(w) => ~(Len(w[k + 1]) \in 1 .. buf)),
           \/ \A j \in k + 1 .. Len(w) : ~(Behind(w, j) <= cut)
           \/ k < Len(w) => ~(Len(w[k + 1]) <= buf)
    PROVE  ~EndsClean(w, k, cut, buf)
<1> SUFFICES ASSUME NEW n \in k .. Len(w), \A j \in k + 1 .. n : Len(w[j]) <= buf,
                    \/ Behind(w, n) = cut
                    \/ Behind(w, n) + 2 = cut /\ n < Len(w) /\ Len(w[n + 1]) \in 1 .. buf
             PROVE  FALSE
  BY DEF EndsClean
<1>1. n # k
  OBVIOUS
<1>2. k < Len(w) /\ k + 1 \in k + 1 .. n /\ n \in k + 1 .. Len(w)
  BY <1>1
<1>3. Len(w[k + 1]) <= buf
  BY <1>2
<1>4. ~(Behind(w, n) <= cut)
  BY <1>2, <1>3
<1>5. Behind(w, n) \in Nat
  BY <1>2, Places
<1> QED BY <1>4, <1>5

\* Whether the end is clean does not depend on packets that were read whole.
LEMMA CleanNext ==
    ASSUME NEW w \in Seq(Fitting), NEW k \in 0 .. Len(w) - 1, NEW cut \in Nat, NEW buf \in Nat,
           Len(w[k + 1]) <= buf, Behind(w, k + 1) <= cut
    PROVE  EndsClean(w, k, cut, buf) <=> EndsClean(w, k + 1, cut, buf)
<1>0. /\ k \in 0 .. Len(w) /\ k + 1 \in 0 .. Len(w) /\ k + 1 \in k + 1 .. Len(w) /\ Len(w) \in Nat
      /\ k + 1 \in 1 .. Len(w)
  OBVIOUS
<1> DEFINE l == Len(w[k + 1])
<1>1. l \in Nat /\ Behind(w, k) \in Nat /\ Behind(w, k + 1) = Behind(w, k) + 2 + l
  <2>1. w[k + 1] \in Fitting
    BY <1>0, ElementOfSeq
  <2>2. l \in Nat
    BY <2>1 DEF Fitting, Packet
  <2> QED BY <1>0, <2>2, Layout
<1> DEFINE End(n) == \/ Behind(w, n) = cut
                     \/ Behind(w, n) + 2 = cut /\ n < Len(w) /\ Len(w[n + 1]) \in 1 .. buf
<1>2. ~End(k)
  <2> HIDE DEF l
  <2>1. Behind(w, k) # cut
    BY <1>1
  <2>2. Behind(w, k) + 2 = cut => l = 0
    BY <1>1
  <2> QED BY <2>1, <2>2 DEF l
<1> HIDE DEF End, l
<1>3. ASSUME NEW n \in k .. Len(w), \A j \in k + 1 .. n : Len(w[j]) <= buf, End(n)
      PROVE  n \in k + 1 .. Len(w) /\ \A j \in (k + 1) + 1 .. n : Len(w[j]) <= buf
  <2>1. n # k
    BY <1>2, <1>3
  <2> QED BY <1>0, <1>3, <2>1
<1>4. ASSUME NEW n \in k + 1 .. Len(w), \A j \in (k + 1) + 1 .. n : Len(w[j]) <= buf
      PROVE  n \in k .. Len(w) /\ \A j \in k + 1 .. n : Len(w[j]) <= buf
  <2>1. ASSUME NEW j \in k + 1 .. n PROVE Len(w[j]) <= buf
    <3>1. CASE j = k + 1
      BY <3>1
    <3>2. CASE j # k + 1
      <4>1. j \in (k + 1) + 1 .. n
        BY <1>0, <3>2
      <4> QED BY <1>4, <4>1
    <3> QED BY <3>1, <3>2
  <2> QED BY <1>0, <2>1
<1>5. \A m : EndsClean(w, m, cut, buf) <=>
                \E n \in m .. Len(w) : (\A j \in m + 1 .. n : Len(w[j]) <= buf) /\ End(n)
  BY DEF EndsClean, End
<1>6. EndsClean(w, k, cut, buf) => EndsClean(w, k + 1, cut, buf)
  BY <1>3, <1>5
<1>7. EndsClean(w, k + 1, cut, buf) => EndsClean(w, k, cut, buf)
  BY <1>4, <1>5
<1> QED BY <1>6, <1>7

\* The reads of the stream s, of which f are the results.
Reads(s, buf, f) == \A i \in 1 .. Len(s) + 1 : f[i] = Got(s, buf, f, i)

\* s is the stream of the packets w up to byte cut.
CutOff(w, cut, s) ==
    /\ cut \in 0 .. Len(WriteAll(w).out) /\ s \in Seq(Byte) /\ Len(s) = cut
    /\ \A i \in 1 .. cut : s[i] = WriteAll(w).out[i]

\* What the header of the next packet says when it has arrived, and what follows
\* it when the packet has.
LEMMA NextPacket ==
    ASSUME NEW w \in Seq(Fitting), NEW cut, NEW s, CutOff(w, cut, s), NEW k \in 0 .. Len(w) - 1,
           Behind(w, k) + 2 <= cut
    PROVE  LET i == Behind(w, k) + 1
           IN  /\ s[i] * B + s[i + 1] = Len(w[k + 1])
               /\ Behind(w, k + 1) <= cut =>
                    \A j \in 1 .. Len(w[k + 1]) : s[i + 1 + j] = w[k + 1][j]
<1> DEFINE t == WriteAll(w).out
           b == Behind(w, k)
           p == w[k + 1]
<1>1. b \in Nat /\ Holds(t, b, p) /\ Behind(w, k + 1) = b + 2 + Len(p)
  <2>1. k \in 0 .. Len(w)
    OBVIOUS
  <2> QED BY <2>1, Layout
<1>2. p \in Packet /\ Len(p) \in Nat
  <2>1. k + 1 \in 1 .. Len(w)
    OBVIOUS
  <2>2. p \in Fitting
    BY <2>1, ElementOfSeq
  <2> QED BY <2>2 DEF Fitting, Packet
<1>3. cut \in Nat /\ Len(s) = cut /\ \A i \in 1 .. cut : s[i] = t[i]
  BY DEF CutOff
<1>4. b + 2 <= cut
  OBVIOUS
<1> DEFINE c == Behind(w, k + 1)
<1>5. c = b + 2 + Len(p)
  BY <1>1
<1> HIDE DEF t, b, p, c
<1>6. s[b + 1] = t[b + 1] /\ s[b + 2] = t[b + 2]
  BY <1>1, <1>3, <1>4
<1>7. (s[b + 1] * B) + s[b + 2] = Len(p)
  BY <1>1, <1>6 DEF Holds
<1>8. ASSUME c <= cut, NEW j \in 1 .. Len(p) PROVE s[b + 2 + j] = p[j]
  <2>1. b + 2 + j \in 1 .. cut
    BY <1>1, <1>2, <1>3, <1>5, <1>8
  <2>2. s[b + 2 + j] = t[b + 2 + j]
    BY <1>3, <2>1
  <2> QED BY <1>1, <2>2 DEF Holds
<1>9. b + 1 + 1 = b + 2 /\ \A j \in 1 .. Len(p) : b + 1 + 1 + j = b + 2 + j
  BY <1>1, <1>2
<1>10. (s[b + 1] * B) + s[b + 1 + 1] = Len(p)
  BY <1>7, <1>9
<1>11. c <= cut => \A j \in 1 .. Len(p) : s[b + 1 + 1 + j] = p[j]
  BY <1>8, <1>9
<1> QED BY <1>10, <1>11 DEF b, p, c

\* A packet that is read whole, in front of the later ones.
LEMMA ReadWhole ==
    ASSUME NEW w \in Seq(Fitting), NEW k \in 0 .. Len(w) - 1, NEW cut \in Nat, NEW buf \in Nat,
           NEW r, ReadFrom(w, k + 1, cut, buf, r), Len(w[k + 1]) <= buf, Behind(w, k + 1) <= cut
    PROVE  ReadFrom(w, k, cut, buf, Before(w[k + 1], r))
<1> DEFINE N == Len(w)
           p == w[k + 1]
           q == Before(p, r)
           n == Len(r.got)
<1>1. N \in Nat /\ k + 1 \in 1 .. N
  OBVIOUS
<1>2. p \in Packet
  <2>1. p \in Fitting
    BY <1>1, ElementOfSeq
  <2> QED BY <2>1 DEF Fitting
<1>3. /\ r \in Read /\ n <= N - (k + 1)
      /\ \A j \in 1 .. n : r.got[j] = w[k + 1 + j]
      /\ r.end # "panic" => \A j \in (k + 1) + 1 .. N : j <= k + 1 + n <=> Behind(w, j) <= cut
      /\ r.end = "panic" => n < N - (k + 1) /\ Len(w[k + 1 + n + 1]) > buf
      /\ r.end = "EOF" <=> EndsClean(w, k + 1, cut, buf)
  BY DEF ReadFrom
<1>4. n \in Nat
  BY <1>3 DEF Read
<1>5. /\ q \in Read /\ q.end = r.end /\ Len(q.got) = n + 1 /\ q.got[1] = p
      /\ \A j \in 1 .. n : q.got[j + 1] = r.got[j]
  <2> HIDE DEF p
  <2> QED BY <1>2, <1>3, ReadTypes
<1>6. EndsClean(w, k, cut, buf) <=> EndsClean(w, k + 1, cut, buf)
  BY CleanNext
<1> HIDE DEF n, q, N
<1>7. n + 1 <= N - k
  BY <1>1, <1>3, <1>4
<1>8. ASSUME NEW j \in 1 .. n + 1 PROVE q.got[j] = w[k + j]
  <2>1. CASE j = 1
    BY <1>5, <2>1
  <2>2. CASE j # 1
    <3>1. j - 1 \in 1 .. n /\ (j - 1) + 1 = j /\ k + 1 + (j - 1) = k + j
      BY <1>4, <2>2
    <3>2. q.got[(j - 1) + 1] = r.got[j - 1] /\ r.got[j - 1] = w[k + 1 + (j - 1)]
      BY <1>3, <1>5, <3>1
    <3> QED BY <3>1, <3>2
  <2> QED BY <2>1, <2>2
<1>9. ASSUME r.end # "panic", NEW j \in k + 1 .. N PROVE j <= k + (n + 1) <=> Behind(w, j) <= cut
  <2>1. CASE j = k + 1
    BY <1>1, <1>4, <2>1
  <2>2. CASE j # k + 1
    <3>1. j \in (k + 1) + 1 .. N /\ k + 1 + n = k + (n + 1)
      BY <1>1, <1>4, <2>2
    <3> QED BY <1>3, <1>9, <3>1
  <2> QED BY <2>1, <2>2
<1>10. ASSUME r.end = "panic" PROVE n + 1 < N - k /\ Len(w[k + (n + 1) + 1]) > buf
  <2>1. n < N - (k + 1) /\ Len(w[k + 1 + n + 1]) > buf /\ k + 1 + n + 1 = k + (n + 1) + 1
    BY <1>1, <1>3, <1>4, <1>10
  <2> QED BY <1>1, <1>4, <2>1
<1>11. /\ q \in Read /\ Len(q.got) <= N - k
       /\ \A j \in 1 .. Len(q.got) : q.got[j] = w[k + j]
       /\ q.end # "panic" => \A j \in k + 1 .. N : j <= k + Len(q.got) <=> Behind(w, j) <= cut
       /\ q.end = "panic" => Len(q.got) < N - k /\ Len(w[k + Len(q.got) + 1]) > buf
       /\ q.end = "EOF" <=> EndsClean(w, k, cut, buf)
  BY <1>3, <1>5, <1>6, <1>7, <1>8, <1>9, <1>10
<1> QED BY <1>11 DEF ReadFrom, q, N

\* One read: the end of the stream, a part of a header, a packet larger than the
\* buffer, a part of a packet, or a packet.
LEMMA ReadStep ==
    ASSUME NEW w \in Seq(Fitting), NEW cut, NEW s, CutOff(w, cut, s), NEW buf \in Nat,
           NEW f, Reads(s, buf, f), NEW k \in 0 .. Len(w), Behind(w, k) <= cut,
           k < Len(w) /\ Behind(w, k + 1) <= cut =>
                ReadFrom(w, k + 1, cut, buf, f[Behind(w, k + 1) + 1])
    PROVE  ReadFrom(w, k, cut, buf, f[Behind(w, k) + 1])
<1> DEFINE N == Len(w)
           b == Behind(w, k)
           i == b + 1
           left == Len(s) + 1 - i
           l == s[i] * B + s[i + 1]
<1>0. N \in Nat /\ k \in Nat /\ cut \in Nat /\ s \in Seq(Byte) /\ Len(s) = cut
  BY DEF CutOff
<1>1. b \in Nat /\ \A j \in k + 1 .. N : Behind(w, j) \in Nat /\ b + 2 <= Behind(w, j)
  BY Places
<1>2. i \in 1 .. Len(s) + 1 /\ left = cut - b /\ left \in Nat
  <2> HIDE DEF b
  <2> QED BY <1>0, <1>1 DEF b
<1>3. f[i] = Got(s, buf, f, i)
  BY <1>2 DEF Reads
<1>4. /\ left = 0 => f[i] = NoMore("EOF")
      /\ left = 1 => f[i] = NoMore("ErrUnexpectedEOF")
      /\ left > 1 /\ l > buf => f[i] = NoMore("panic")
      /\ left = 2 /\ l <= buf /\ left < l + 2 => f[i] = NoMore("EOF")
      /\ left > 2 /\ l <= buf /\ left < l + 2 => f[i] = NoMore("ErrUnexpectedEOF")
      /\ left > 1 /\ l <= buf /\ l + 2 <= left =>
            f[i] = Before(SubSeq(s, i + 2, i + 1 + l), f[i + 2 + l])
  <2> HIDE DEF i
  <2>1. /\ left = 0 => \A g : Got(s, buf, g, i) = NoMore("EOF")
        /\ left = 1 => \A g : Got(s, buf, g, i) = NoMore("ErrUnexpectedEOF")
        /\ left > 1 /\ l > buf => \A g : Got(s, buf, g, i) = NoMore("panic")
        /\ left = 2 /\ l <= buf /\ left < l + 2 => \A g : Got(s, buf, g, i) = NoMore("EOF")
        /\ left > 2 /\ l <= buf /\ left < l + 2 => \A g : Got(s, buf, g, i) = NoMore("ErrUnexpectedEOF")
        /\ left > 1 /\ l <= buf /\ l + 2 <= left =>
                \A g : Got(s, buf, g, i) = Before(SubSeq(s, i + 2, i + 1 + l), g[i + 2 + l])
    BY <1>0, <1>2, ReadCases
  <2> HIDE DEF left, l
  <2> QED BY <1>3, <2>1, Zenon
<1>5. "EOF" \in ReadEnd \ {"panic"} /\ "ErrUnexpectedEOF" \in ReadEnd \ {"panic"} /\ "panic" \in ReadEnd
  BY DEF ReadEnd
<1> HIDE DEF left, l
<1>6. CASE left = 0
  <2>1. b = cut
    BY <1>0, <1>1, <1>2, <1>6
  <2>2. \A j \in k + 1 .. N : ~(Behind(w, j) <= cut)
    BY <1>0, <1>1, <2>1
  <2>3. EndsClean(w, k, cut, buf)
    <3>1. k \in k .. Len(w) /\ \A j \in k + 1 .. k : Len(w[j]) <= buf
      BY <1>0
    <3> QED BY <2>1, <3>1 DEF EndsClean
  <2>4. ReadFrom(w, k, cut, buf, NoMore("EOF"))
    <3> HIDE DEF b, i
    <3> QED BY <1>0, <1>5, <2>2, <2>3, ReadNothing
  <2> QED BY <1>4, <1>6, <2>4
<1>7. CASE left = 1
  <2>1. b + 1 = cut /\ b # cut /\ b + 2 # cut
    BY <1>0, <1>1, <1>2, <1>7
  <2>2. \A j \in k + 1 .. N : ~(Behind(w, j) <= cut)
    BY <1>0, <1>1, <2>1
  <2>3. ~EndsClean(w, k, cut, buf)
    BY <1>0, <2>1, <2>2, NotClean
  <2>4. ReadFrom(w, k, cut, buf, NoMore("ErrUnexpectedEOF"))
    <3> HIDE DEF b, i
    <3> QED BY <1>0, <1>5, <2>2, <2>3, ReadNothing
  <2> QED BY <1>4, <1>7, <2>4
<1>8. CASE left > 1
  <2>1. b + 2 <= cut /\ b # cut
    BY <1>0, <1>1, <1>2, <1>8
  <2>2. k \in 0 .. N - 1
    <3>1. Behind(w, N) = Len(WriteAll(w).out) /\ cut <= Len(WriteAll(w).out)
      <4>1. WriteAll(w).out \in Seq(Byte)
        BY Layout
      <4> QED BY <4>1, Layout DEF CutOff
    <3>2. k # N
      <4>1. CASE k = N
        <5>1. b = Len(WriteAll(w).out)
          BY <3>1, <4>1
        <5> HIDE DEF b
        <5> QED BY <1>0, <1>1, <2>1, <3>1, <5>1
      <4> QED BY <4>1
    <3> QED BY <1>0, <3>2
  <2> DEFINE p == w[k + 1]
             c == Behind(w, k + 1)
  <2>3. l = Len(p) /\ (c <= cut => \A j \in 1 .. Len(p) : s[i + 1 + j] = p[j])
    BY <2>1, <2>2, NextPacket DEF l
  <2>4. p \in Packet /\ Len(p) \in Nat
    <3>1. k + 1 \in 1 .. N
      BY <1>0, <2>2
    <3>2. p \in Fitting
      BY <3>1, ElementOfSeq
    <3> QED BY <3>2 DEF Fitting, Packet
  <2>5. c = b + 2 + Len(p)
    BY <2>2, Layout
  <2>6. CASE l > buf
    <3>1. ~(Len(p) <= buf) /\ Len(p) > buf
      BY <2>3, <2>4, <2>6
    <3>2. ~EndsClean(w, k, cut, buf)
      BY <1>0, <2>1, <2>4, <3>1, NotClean
    <3> DEFINE r == NoMore("panic")
    <3>3. r \in Read /\ r.end = "panic" /\ Len(r.got) = 0
      BY <1>5, NoMoreType
    <3> HIDE DEF r
    <3>4. 0 < N - k /\ k + 0 + 1 = k + 1
      BY <1>0, <2>2
    <3>5. "EOF" # "panic"
      OBVIOUS
    <3>6. ReadFrom(w, k, cut, buf, r)
      <4>1. Len(r.got) < N - k /\ Len(r.got) <= N - k
        BY <1>0, <3>3, <3>4
      <4>2. \A j \in 1 .. Len(r.got) : r.got[j] = w[k + j]
        BY <3>3
      <4>3. Len(w[k + Len(r.got) + 1]) > buf
        BY <3>1, <3>3, <3>4
      <4>4. ~(r.end = "EOF")
        BY <3>3, <3>5
      <4> QED BY <3>2, <3>3, <4>1, <4>2, <4>3, <4>4 DEF ReadFrom
    <3> QED BY <1>4, <1>8, <2>6, <3>6 DEF r
  <2>7. CASE l <= buf /\ left < l + 2
    <3>1. c > cut
      <4> HIDE DEF b, c, p
      <4> QED BY <1>0, <1>1, <1>2, <2>3, <2>4, <2>5, <2>7
    <3>2. \A j \in k + 1 .. N : ~(Behind(w, j) <= cut)
      <4>1. k + 1 \in 0 .. N /\ c \in Nat
        BY <1>0, <1>1, <2>2, <2>4, <2>5
      <4>2. ASSUME NEW j \in k + 1 .. N PROVE ~(Behind(w, j) <= cut)
        <5>1. CASE j = k + 1
          BY <1>0, <3>1, <4>1, <5>1
        <5>2. CASE j # k + 1
          <6>1. j \in (k + 1) + 1 .. N
            BY <1>0, <5>2
          <6>2. Behind(w, j) \in Nat /\ c + 2 <= Behind(w, j)
            BY <4>1, <6>1, Places
          <6> HIDE DEF c
          <6> QED BY <1>0, <3>1, <4>1, <6>2
        <5> QED BY <5>1, <5>2
      <4> QED BY <4>2
    <3>3. CASE left = 2
      <4>1. b + 2 = cut /\ k < N /\ Len(p) \in 1 .. buf
        <5> HIDE DEF b, p
        <5> QED BY <1>0, <1>1, <1>2, <2>2, <2>3, <2>4, <2>7, <3>3
      <4>2. k \in k .. N /\ \A j \in k + 1 .. k : Len(w[j]) <= buf
        BY <1>0
      <4>3. EndsClean(w, k, cut, buf)
        BY <4>1, <4>2 DEF EndsClean
      <4>4. ReadFrom(w, k, cut, buf, NoMore("EOF"))
        <5> HIDE DEF b, i
        <5> QED BY <1>0, <1>5, <3>2, <4>3, ReadNothing
      <4> QED BY <1>4, <2>7, <3>3, <4>4
    <3>4. CASE left > 2
      <4>1. b + 2 # cut
        BY <1>0, <1>1, <1>2, <3>4
      <4>2. ~EndsClean(w, k, cut, buf)
        BY <1>0, <2>1, <3>2, <4>1, NotClean
      <4>3. ReadFrom(w, k, cut, buf, NoMore("ErrUnexpectedEOF"))
        <5> HIDE DEF b, i
        <5> QED BY <1>0, <1>5, <3>2, <4>2, ReadNothing
      <4> QED BY <1>4, <2>7, <3>4, <4>3
    <3> QED BY <1>2, <1>8, <3>3, <3>4
  <2>8. CASE l <= buf /\ l + 2 <= left
    <3>1. c <= cut /\ i + 2 + l = c + 1 /\ l \in Nat
      <4> HIDE DEF b, c, p
      <4> QED BY <1>0, <1>1, <1>2, <2>3, <2>4, <2>5, <2>8
    <3> DEFINE q == SubSeq(s, i + 2, i + 1 + l)
    <3>2. q \in Packet /\ Len(q) = l /\ \A j \in 1 .. l : q[j] = s[i + 1 + j]
      <4>1. l + 2 <= Len(s) + 1 - i
        BY <2>8 DEF left
      <4>2. s \in Seq(Byte) /\ i \in 1 .. Len(s) + 1 /\ l \in Nat
        BY <1>0, <1>2, <3>1
      <4> HIDE DEF i
      <4> QED BY <4>1, <4>2, SliceType, Zenon
    <3>3. q = p
      <4> HIDE DEF q, p, c, i
      <4>1. q \in Seq(Byte) /\ p \in Seq(Byte)
        BY <2>4, <3>2 DEF Packet
      <4>2. Len(q) = Len(p) /\ \A j \in 1 .. Len(q) : q[j] = p[j]
        BY <2>3, <3>1, <3>2
      <4> QED BY <4>1, <4>2, SeqEqual
    <3>4. f[i] = Before(p, f[c + 1])
      BY <1>4, <1>8, <2>8, <3>1, <3>3
    <3>5. ReadFrom(w, k + 1, cut, buf, f[c + 1])
      BY <1>0, <2>2, <3>1
    <3>6. Len(p) <= buf
      BY <2>3, <2>8
    <3>7. ReadFrom(w, k, cut, buf, Before(p, f[c + 1]))
      BY <1>0, <2>2, <3>1, <3>5, <3>6, ReadWhole
    <3> QED BY <3>4, <3>7
  <2>9. l \in Nat
    BY <2>3, <2>4
  <2> QED BY <1>2, <2>6, <2>7, <2>8, <2>9
<1> QED BY <1>2, <1>6, <1>7, <1>8

\* All reads, from the start of the stream.
LEMMA ReadStream ==
    ASSUME NEW w \in Seq(Fitting), NEW cut, NEW s, CutOff(w, cut, s), NEW buf \in Nat
    PROVE  ReadFrom(w, 0, cut, buf, ReadAll(s, buf))
<1> DEFINE N == Len(w)
<1>0. N \in Nat /\ cut \in Nat /\ s \in Seq(Byte) /\ Len(s) = cut
  BY DEF CutOff
<1>1. PICK f : ReadAll(s, buf) = f[1] /\ Reads(s, buf, f)
  BY <1>0, ReadLoop DEF Reads
<1> DEFINE Good(k) == Behind(w, k) <= cut => ReadFrom(w, k, cut, buf, f[Behind(w, k) + 1])
           S == {n \in 0 .. N : Good(N - n)}
<1>2. ASSUME NEW k \in 0 .. N, k < N => Good(k + 1) PROVE Good(k)
  BY <1>1, <1>2, ReadStep
<1> HIDE DEF Good
<1>3. 0 \in S
  <2>1. N \in 0 .. N /\ ~(N < N) /\ N - 0 = N
    BY <1>0
  <2>2. Good(N)
    BY <1>2, <2>1
  <2> QED BY <1>0, <2>1, <2>2
<1>4. ASSUME NEW n \in 0 .. N - 1, n \in S PROVE n + 1 \in S
  <2> DEFINE k == N - (n + 1)
  <2>1. k \in 0 .. N /\ k + 1 = N - n /\ n + 1 \in 0 .. N
    BY <1>0
  <2>2. Good(k + 1)
    BY <1>4, <2>1
  <2>3. Good(k)
    BY <1>2, <2>1, <2>2
  <2> QED BY <2>1, <2>3
<1> HIDE DEF S
<1>5. N \in S
  <2>1. \A n \in 0 .. N - 1 : n \in S => n + 1 \in S
    BY <1>4
  <2> HIDE DEF N
  <2>2. \A n \in 0 .. N : n \in S
    BY <1>0, <1>3, <2>1, UptoInduction, Zenon
  <2> QED BY <1>0, <2>2
<1>6. Good(0)
  <2>1. N - N = 0
    BY <1>0
  <2> QED BY <1>5, <2>1 DEF S
<1>7. Behind(w, 0) = 0 /\ 0 <= cut
  BY <1>0, Layout
<1> QED BY <1>1, <1>6, <1>7 DEF Good

\* A transfer: the packets that are not refused, the stream up to where it breaks,
\* and the reads of it.
LEMMA TransferExact ==
    ASSUME NEW ps \in Seq(Packet), NEW at \in Nat, NEW buf \in Nat
    PROVE  LET stream  == WriteAll(ps).out
               written == WriteAll(ps).written
               cut     == IF at < Len(stream) THEN at ELSE Len(stream)
               r       == ReadAll(SubSeq(stream, 1, cut), buf)
           IN  ReadFrom(written, 0, cut, buf, r) /\ written \in Seq(Packet)
<1> DEFINE t == WriteAll(ps).out
           w == WriteAll(ps).written
           cut == IF at < Len(t) THEN at ELSE Len(t)
           s == SubSeq(t, 1, cut)
<1>1. /\ w \in Seq(Fitting) /\ w \in Seq(Packet) /\ t \in Seq(Byte) /\ WriteAll(w).out = t
  <2>1. WriteAll(ps) \in Wrote /\ w \in Seq(Fitting) /\ WriteAll(w) = WriteAll(ps)
    BY WrittenAlone
  <2> QED BY <2>1 DEF Wrote
<1> HIDE DEF t, w
<1>2. cut \in 0 .. Len(t)
  <2>1. Len(t) \in Nat
    BY <1>1
  <2> QED BY <2>1
<1> HIDE DEF cut
<1>3. s \in Seq(Byte) /\ Len(s) = cut /\ \A i \in 1 .. cut : s[i] = t[i]
  BY <1>1, <1>2, Firsts
<1> HIDE DEF s
<1>4. CutOff(w, cut, s)
  BY <1>1, <1>2, <1>3 DEF CutOff
<1>5. ReadFrom(w, 0, cut, buf, ReadAll(s, buf))
  BY <1>1, <1>4, ReadStream
<1> QED BY <1>1, <1>5 DEF t, w, cut, s

-----------------------------------------------------------------------------
(* The functions, as they are called.                                       *)

\* The call that was made is of one of the functions, on one of its inputs.
CallInv ==
    /\ fn = "getCidrIntRange" => input \in AllNets
    /\ fn = "packetReadWriter" => input \in Transfers
    /\ fn = "CompareVersion" => input \in Releases

LEMMA CallsInv == Calls => []CallInv
<1>1. NoCall => CallInv
  BY DEF NoCall, CallInv
<1>2. ASSUME CallInv, [SomeCall]_<<fn, input>> PROVE CallInv'
  <2>1. CASE Call("getCidrIntRange", AllNets)
    BY <2>1 DEF Call, CallInv
  <2>2. CASE Call("packetReadWriter", Transfers)
    BY <2>2 DEF Call, CallInv
  <2>3. CASE Call("CompareVersion", Releases)
    BY <2>3 DEF Call, CallInv
  <2>4. CASE UNCHANGED <<fn, input>>
    BY <1>2, <2>4 DEF CallInv
  <2> QED BY <1>2, <2>1, <2>2, <2>3, <2>4 DEF SomeCall
<1> QED BY <1>1, <1>2, PTL DEF Calls

\* For every width of the words and every network, in either notation and with any
\* prefix from 0 to the full width, getCidrIntRange returns the addresses that
\* share the prefix.
THEOREM RangeOfNetwork == Calls => []RangeIsNetwork
<1>1. CallInv => RangeIsNetwork
  BY RangeExact DEF CallInv, RangeIsNetwork
<1> QED BY <1>1, CallsInv, PTL

\* What packetReadWriter writes it reads again, for every sequence of packets, of
\* any lengths, every byte at which the stream may break and every size of the
\* buffer: the two bytes of the length neither lose nor merge packets.
THEOREM FramingExact == Calls => []FramesExact
<1>1. CallInv => FramesExact
  <2> SUFFICES ASSUME fn = "packetReadWriter", input \in Transfers PROVE FramesExact
    BY DEF CallInv, FramesExact
  <2> DEFINE stream  == WriteAll(input.ps).out
             w       == WriteAll(input.ps).written
             cut     == IF input.cut < Len(stream) THEN input.cut ELSE Len(stream)
             r       == ReadAll(SubSeq(stream, 1, cut), input.buf)
             n       == Len(r.got)
             buf     == input.buf
  <2>1. input.ps \in Seq(Packet) /\ input.cut \in Nat /\ input.buf \in Nat
    BY TransfersAssumption
  <2>2. ReadFrom(w, 0, cut, buf, r) /\ w \in Seq(Packet)
    BY <2>1, TransferExact
  <2> DEFINE Exact ==
        /\ n <= Len(w) /\ r.got = SubSeq(w, 1, n)
        /\ r.end # "panic" => \A k \in 1 .. Len(w) : k <= n <=> Behind(w, k) <= cut
        /\ r.end = "panic" => n < Len(w) /\ Len(w[n + 1]) > buf
        /\ r.end = "EOF" <=> \E k \in 0 .. Len(w) :
                                /\ \A j \in 1 .. k : Len(w[j]) <= buf
                                /\ \/ Behind(w, k) = cut
                                   \/ /\ Behind(w, k) + 2 = cut
                                      /\ k < Len(w) /\ Len(w[k + 1]) \in 1 .. buf
  <2>3. Exact => FramesExact
    BY DEF FramesExact
  <2> HIDE DEF stream, w, cut, r, buf
  <2>4. /\ r \in Read /\ n <= Len(w) - 0
        /\ \A j \in 1 .. n : r.got[j] = w[0 + j]
        /\ r.end # "panic" => \A j \in 0 + 1 .. Len(w) : j <= 0 + n <=> Behind(w, j) <= cut
        /\ r.end = "panic" => n < Len(w) - 0 /\ Len(w[0 + n + 1]) > buf
        /\ r.end = "EOF" <=> EndsClean(w, 0, cut, buf)
    BY <2>2 DEF ReadFrom
  <2>5. Len(w) \in Nat /\ n \in Nat /\ r.got \in Seq(Packet)
    BY <2>2, <2>4 DEF Read
  <2>6. r.got = SubSeq(w, 1, n)
    <3>1. n \in 0 .. Len(w)
      BY <2>4, <2>5
    <3> DEFINE q == SubSeq(w, 1, n)
    <3>2. q \in Seq(Packet) /\ Len(q) = n /\ \A k \in 1 .. n : q[k] = w[k]
      BY <2>2, <3>1, Firsts
    <3>3. \A j \in 1 .. n : r.got[j] = w[j]
      BY <2>4, <2>5
    <3> HIDE DEF q
    <3>4. Len(r.got) = Len(q) /\ \A j \in 1 .. Len(r.got) : r.got[j] = q[j]
      BY <3>2, <3>3
    <3>5. r.got = q
      BY <2>5, <3>2, <3>4, SeqEqual
    <3> QED BY <3>5 DEF q
  <2> HIDE DEF n
  <2>7. r.end # "panic" => \A k \in 1 .. Len(w) : k <= n <=> Behind(w, k) <= cut
    BY <2>4, <2>5
  <2>8. r.end = "panic" => n < Len(w) /\ Len(w[n + 1]) > buf
    BY <2>4, <2>5
  <2>9. EndsClean(w, 0, cut, buf) <=>
            \E k \in 0 .. Len(w) :
                /\ \A j \in 1 .. k : Len(w[j]) <= buf
                /\ \/ Behind(w, k) = cut
                   \/ Behind(w, k) + 2 = cut /\ k < Len(w) /\ Len(w[k + 1]) \in 1 .. buf
    <3>1. 0 + 1 = 1
      OBVIOUS
    <3> QED BY <3>1 DEF EndsClean
  <2>10. n <= Len(w)
    BY <2>4, <2>5
  <2>11. r.end = "EOF" <=> EndsClean(w, 0, cut, buf)
    BY <2>4
  <2>12. Exact
    BY <2>6, <2>7, <2>8, <2>9, <2>10, <2>11, Zenon
  <2> QED BY <2>3, <2>12
<1> QED BY <1>1, CallsInv, PTL

\* For every pair of versions, of any numbers of components and any spelling,
\* CompareVersion offers a newer release and neither an older one nor the one that
\* runs.
THEOREM OfferIsNewer == Calls => []UpgradeIsNewer
<1>1. CallInv => UpgradeIsNewer
  <2> SUFFICES ASSUME fn = "CompareVersion", input \in Releases PROVE UpgradeIsNewer
    BY DEF CallInv, UpgradeIsNewer
  <2>1. input.old \in Version /\ input.new \in Version
    BY ReleasesAssumption
  <2>2. /\ Older(input.old, input.new) => CompareVersion(input.old, input.new) = LESS
        /\ Older(input.new, input.old) \/ input.new = input.old =>
                CompareVersion(input.old, input.new) # LESS
    BY <2>1, OfferExact
  <2> QED BY <2>2 DEF UpgradeIsNewer
<1> QED BY <1>1, CallsInv, PTL
=============================================================================
