------------------------------- MODULE Upgrade -------------------------------
(***************************************************************************)
(* The gateway as a service: the daemon of gateway/cmd/daemon.go, which    *)
(* starts the worker process and starts it again when it ends, the worker  *)
(* of gateway/cmd/main.go, and upgradeMyself of gateway/upgrade.go, with   *)
(* which the worker replaces the binary it was started from.               *)
(*                                                                         *)
(* The installed binary is file 0; upgrade k writes file k.  The names of  *)
(* the directory are numbers: 0 is bin, and n + 1 is n with ".bak" added.  *)
(* A process does not know the name it was started from: os.Executable     *)
(* reads /proc/self/exe, which follows its file through renames.  Only     *)
(* workers of file 0 upgrade, so that its name is the one that matters.  A *)
(* kill is immediate.                                                      *)
(***************************************************************************)
EXTENDS Integers, FiniteSets

CONSTANTS
    Workers,      \* names for worker processes
    MaxUpgrades,  \* how many upgrades are requested
    None          \* no process, no file

ASSUME MaxUpgradesAssumption == MaxUpgrades \in Nat \ {0}

Upgrades == 1 .. MaxUpgrades
Files == 0 .. MaxUpgrades

\* An upgrade adds one ".bak" at most.
Names == 0 .. MaxUpgrades
bin == 0

ASSUME NoneAssumption == None \notin Workers \cup Files

VARIABLES
    dpc,      \* the daemon: "off", or where its loop (run) is
    proc,     \* d.proc
    stopped,  \* d.stopped
    stop,     \* the service manager's Stop: "no", "set" (stopped) or "killed"
    worker,   \* each worker: "none", "boot" (Run), "up", or "stuck" after Run failed
    image,    \* the file each worker was started from, 0 when it has ended
    dir,      \* the file under each name
    last,     \* the name of file 0, or the last it had
    file,     \* for each file, whether it is complete and executable
    upc,      \* where each upgrade is; "cut": its file was truncated during its copy
    by,       \* the worker that carries it out
    path,     \* its binPath, kept when it has succeeded
    out,      \* the file it creates, or has opened, to copy to
    late,     \* the workers that were started after Stop had looked for one to kill
    stale     \* an upgrade renamed a file that is not the one its worker runs

vars == <<dpc, proc, stopped, stop, worker, image, dir, last, file, upc, by, path, out, late, stale>>
daemonVars == <<dpc, proc, stopped, stop, late>>
fileVars == <<dir, last, file, path, out, stale>>

Done == {"new", "done", "failed"}

TypeOK ==
    /\ dpc \in {"off", "test", "start", "wait", "sleep", "ended"}
    /\ proc \in Workers \cup {None}
    /\ stopped \in BOOLEAN /\ stale \in BOOLEAN
    /\ stop \in {"no", "set", "killed"}
    /\ worker \in [Workers -> {"none", "boot", "up", "stuck"}]
    /\ image \in [Workers -> Files]
    /\ late \subseteq Workers
    /\ dir \in [Names -> Files \cup {None}]
    /\ last \in Names
    /\ file \in [Files -> [whole : BOOLEAN, exec : BOOLEAN]]
    /\ upc \in [Upgrades -> Done \cup {"named", "renamed", "created", "cut", "copied"}]
    /\ by \in [Upgrades -> Workers \cup {None}]
    /\ path \in [Upgrades -> Names]
    /\ out \in [Upgrades -> Files]

Init ==
    /\ dpc = "off" /\ proc = None /\ stopped = FALSE /\ stop = "no"
    /\ worker = [w \in Workers |-> "none"]
    /\ image = [w \in Workers |-> 0]
    /\ dir = [n \in Names |-> IF n = bin THEN 0 ELSE None]
    /\ last = bin
    /\ file = [f \in Files |-> [whole |-> f = 0, exec |-> f = 0]]
    /\ upc = [k \in Upgrades |-> "new"]
    /\ by = [k \in Upgrades |-> None]
    /\ path = [k \in Upgrades |-> bin]
    /\ out = [k \in Upgrades |-> k]
    /\ late = {} /\ stale = FALSE

Alive == {w \in Workers : worker[w] # "none"}
Whole(f) == f # None /\ file[f].whole
Runnable(f) == Whole(f) /\ file[f].exec

\* An upgrade that ends without success, with its locals.
Drops(those) ==
    /\ upc' = [k \in Upgrades |-> IF k \in those THEN "failed" ELSE upc[k]]
    /\ by' = [k \in Upgrades |-> IF k \in those THEN None ELSE by[k]]
    /\ path' = [k \in Upgrades |-> IF k \in those THEN bin ELSE path[k]]
    /\ out' = [k \in Upgrades |-> IF k \in those THEN k ELSE out[k]]

\* A worker ends, and with it the upgrades it was carrying out.
Ends(w) ==
    /\ worker' = [worker EXCEPT ![w] = "none"]
    /\ image' = [image EXCEPT ![w] = 0]
    /\ late' = late \ {w}
    /\ Drops({k \in Upgrades : by[k] = w})

-----------------------------------------------------------------------------
(* The daemon.                                                              *)

\* Start, by the service manager: run begins.
daemonStart ==
    /\ dpc = "off"
    /\ dpc' = "test" /\ stopped' = FALSE
    /\ UNCHANGED <<proc, stop, worker, image, fileVars, upc, by, late>>

testStopped ==
    /\ dpc = "test"
    /\ dpc' = IF stopped THEN "ended" ELSE "start"
    /\ UNCHANGED <<proc, stopped, stop, worker, image, fileVars, upc, by, late>>

\* startWorker: StartProcess of d.binPath, which daemonStart asked for when bin was
\* its name, under the mutex.
startWorker(w) ==
    /\ dpc = "start"
    /\ worker[w] = "none"
    /\ dir[bin] # None /\ file[dir[bin]].exec
    /\ worker' = [worker EXCEPT ![w] = "boot"]
    /\ image' = [image EXCEPT ![w] = dir[bin]]
    /\ proc' = w
    /\ dpc' = "wait"
    /\ late' = IF stop = "killed" THEN late \cup {w} ELSE late
    /\ UNCHANGED <<stopped, stop, fileVars, upc, by>>

\* The crash log cannot be created, or the file is not there, not executable or
\* incomplete.  checkAndRevert, whatever name os.Executable gives it by now, asks
\* IsExist of a Stat that succeeded, which is FALSE, or that failed for want of the
\* file, and renames nothing; the loop is left.
startWorkerFails ==
    /\ dpc = "start"
    /\ dpc' = "ended"
    /\ UNCHANGED <<proc, stopped, stop, worker, image, fileVars, upc, by, late>>

\* Faulty variant: the loop is left when the worker ends.
waitEnds ==
    /\ dpc = "wait" /\ worker[proc] = "none"
    /\ proc' = None
    /\ dpc' = "off"
    /\ UNCHANGED <<stopped, stop, worker, image, fileVars, upc, by, late>>

\* d.proc.Wait returns.
wait ==
    /\ dpc = "wait" /\ worker[proc] = "none"
    /\ proc' = None
    /\ dpc' = "sleep"
    /\ UNCHANGED <<stopped, stop, worker, image, fileVars, upc, by, late>>

sleep ==
    /\ dpc = "sleep"
    /\ dpc' = "test"
    /\ UNCHANGED <<proc, stopped, stop, worker, image, fileVars, upc, by, late>>

\* Stop, first without the mutex ...
stopSet ==
    /\ dpc # "off" /\ stop = "no"
    /\ stopped' = TRUE /\ stop' = "set"
    /\ UNCHANGED <<dpc, proc, worker, image, fileVars, upc, by, late>>

\* Faulty variant: the worker is not killed.
stopKillsNothing ==
    /\ stop = "set"
    /\ stop' = "killed"
    /\ UNCHANGED <<dpc, proc, stopped, worker, image, fileVars, upc, by, late>>

\* ... and then with it.
stopKill ==
    /\ stop = "set"
    /\ IF proc = None THEN UNCHANGED <<worker, image, late, upc, by, path, out>> ELSE Ends(proc)
    /\ stop' = "killed"
    /\ UNCHANGED <<dpc, proc, stopped, dir, last, file, stale>>

\* The process of the daemon leaves after Stop, wherever run is.
daemonExit ==
    /\ stop = "killed"
    /\ dpc' = "off" /\ proc' = None /\ stop' = "no"
    /\ UNCHANGED <<stopped, worker, image, fileVars, upc, by, late>>

-----------------------------------------------------------------------------
(* The worker.                                                              *)

\* Run reaches Serve, with the database locked by no other worker.
runServes(w) ==
    /\ worker[w] = "boot"
    /\ \A v \in Workers : worker[v] # "up"
    /\ worker' = [worker EXCEPT ![w] = "up"]
    /\ UNCHANGED <<daemonVars, image, fileVars, upc, by>>

\* Run returns an error: main logs it and waits for a signal.
runFails(w) ==
    /\ worker[w] \in {"boot", "up"}
    /\ worker' = [worker EXCEPT ![w] = "stuck"]
    /\ UNCHANGED <<daemonVars, image, fileVars, upc, by>>

\* A signal, the restart request or a crash.
workerExit(w) ==
    /\ w \in Alive
    /\ Ends(w)
    /\ UNCHANGED <<dpc, proc, stopped, stop, dir, last, file, stale>>

-----------------------------------------------------------------------------
(* upgradeMyself, one action for each step that changes the directory.      *)

At(k, l) == upc[k] = l
To(k, l) == upc' = [upc EXCEPT ![k] = l]

\* QueryLatestVersion, CompareVersion and the download, which change nothing here,
\* up to os.Executable, which gives the name that the worker's file has now.  The
\* latest version is that of the files that upgrades write, so that only file 0 is
\* older.
download(k, w) ==
    /\ At(k, "new")
    /\ \A j \in 1 .. k - 1 : ~At(j, "new")
    /\ worker[w] = "up" /\ image[w] = 0
    /\ by' = [by EXCEPT ![k] = w]
    /\ path' = [path EXCEPT ![k] = last]
    /\ To(k, "named")
    /\ UNCHANGED <<daemonVars, worker, image, dir, last, file, out, stale>>

\* Faulty variant: the binary is removed, not renamed.
removeBinary(k) ==
    /\ At(k, "named")
    /\ dir[path[k]] # None
    /\ dir' = [dir EXCEPT ![path[k]] = None]
    /\ To(k, "renamed")
    /\ UNCHANGED <<daemonVars, worker, image, last, file, path, out, stale, by>>

\* os.Rename to the name with ".bak" added, over what is there.
rename(k) ==
    /\ At(k, "named")
    /\ dir[path[k]] # None /\ path[k] + 1 \in Names
    /\ dir' = [dir EXCEPT ![path[k]] = None, ![path[k] + 1] = dir[path[k]]]
    /\ last' = IF dir[path[k]] = 0 THEN path[k] + 1 ELSE last
    /\ stale' = (stale \/ dir[path[k]] # image[by[k]])
    /\ To(k, "renamed")
    /\ UNCHANGED <<daemonVars, worker, image, file, path, out, by>>

\* os.Create: a new file, empty and not executable ...
create(k) ==
    /\ At(k, "renamed")
    /\ dir[path[k]] = None
    /\ dir' = [dir EXCEPT ![path[k]] = k]
    /\ To(k, "created")
    /\ UNCHANGED <<daemonVars, worker, image, last, file, path, out, stale, by>>

\* ... or one that an overlapping upgrade has renamed to this name, which is
\* truncated, unless it is running.
createTruncates(k) ==
    /\ At(k, "renamed")
    /\ dir[path[k]] # None /\ \A w \in Alive : image[w] # dir[path[k]]
    /\ out' = [out EXCEPT ![k] = dir[path[k]]]
    /\ file' = [file EXCEPT ![dir[path[k]]].whole = FALSE]
    /\ upc' = [j \in Upgrades |-> IF j = k THEN "created"
                                  ELSE IF At(j, "created") /\ out[j] = dir[path[k]] THEN "cut"
                                  ELSE upc[j]]
    /\ UNCHANGED <<daemonVars, worker, image, dir, last, path, stale, by>>

\* io.Copy into that file, whatever its name is by now.  Where the file was
\* truncated meanwhile, what had been copied before is missing.
copy(k) ==
    /\ \/ At(k, "created") /\ file' = [file EXCEPT ![out[k]].whole = TRUE]
       \/ At(k, "cut") /\ \E f \in {TRUE, file[out[k]].whole} : file' = [file EXCEPT ![out[k]].whole = f]
    /\ To(k, "copied")
    /\ UNCHANGED <<daemonVars, worker, image, dir, last, path, out, stale, by>>

\* Faulty variant: the mode is not changed.
chmodNothing(k) ==
    /\ At(k, "copied")
    /\ dir[path[k]] # None
    /\ To(k, "done")
    /\ UNCHANGED <<daemonVars, worker, image, fileVars, by>>

\* Chmod of the name, and the answer "success, please restart".
chmod(k) ==
    /\ At(k, "copied")
    /\ dir[path[k]] # None
    /\ file' = [file EXCEPT ![dir[path[k]]].exec = TRUE]
    /\ To(k, "done")
    /\ by' = [by EXCEPT ![k] = None]
    /\ out' = [out EXCEPT ![k] = k]
    /\ UNCHANGED <<daemonVars, worker, image, dir, last, path, stale>>

\* Any of the steps fails: the handler returns and undoes nothing.
upgradeFails(k) ==
    /\ upc[k] \notin Done
    /\ Drops({k})
    /\ UNCHANGED <<daemonVars, worker, image, dir, last, file, stale>>

-----------------------------------------------------------------------------
Daemon == testStopped \/ (\E w \in Workers : startWorker(w)) \/ startWorkerFails \/ wait \/ sleep

Next ==
    \/ Daemon \/ daemonStart \/ stopSet \/ stopKill \/ daemonExit
    \/ \E w \in Workers : runServes(w) \/ runFails(w) \/ workerExit(w)
    \/ \E k \in Upgrades :
          \/ \E w \in Workers : download(k, w)
          \/ rename(k) \/ create(k) \/ createTruncates(k) \/ copy(k) \/ chmod(k)
          \/ upgradeFails(k)

\* The loop of the daemon is a goroutine that goes on; nothing is assumed of the
\* worker, the upgrades and the service manager.
Spec == Init /\ [][Next]_vars /\ WF_vars(Daemon)

-----------------------------------------------------------------------------
\* Whatever step of an upgrade fails, wherever the worker dies and however often
\* an upgrade is retried, the installed binary remains in the directory, complete
\* and executable, unless overlapping upgrades have renamed another one's file
\* over it; and between its rename and its create of bin an upgrade is alone, so
\* that bin is never truncated (upgradeMyself).
BinaryKept ==
    /\ ~stale => dir[last] = 0 /\ Runnable(0)
    /\ \A k \in Upgrades : At(k, "renamed") /\ path[k] = bin => dir[bin] = None

\* When every upgrade has answered "success, please restart", however they
\* overlapped, bin is a complete, executable new binary.  When some have failed,
\* the ones that have answered it leave a complete, executable new binary under
\* the name their worker's file had; that is bin for the first upgrade of a
\* worker only, so that a retry does not repair bin.
SuccessRunnable ==
    /\ (\A k \in Upgrades : upc[k] \in {"new", "done"}) /\ (\E k \in Upgrades : At(k, "done"))
          => dir[bin] # 0 /\ Runnable(dir[bin])
    /\ ~stale => \A k \in Upgrades : At(k, "done") => dir[path[k]] = k /\ Runnable(k)

\* Over restarts of the worker and of the service there is one worker, beside
\* those that run, having tested stopped, has started after Stop looked for one
\* to kill: as long as such a worker lives, the restarted service has another.
OneWorker == Cardinality(Alive \ late) <= 1

\* A worker that has ended is started again, unless the service is stopped or
\* the start fails (run).
WorkerReplaced ==
    (dpc = "wait" /\ worker[proc] = "none") ~> (dpc = "wait" /\ worker[proc] # "none")
                                                  \/ stopped \/ dpc = "ended"
=============================================================================
