---------------------------- MODULE SingletonLock ----------------------------
(***************************************************************************)
(* acquireProcessSingletonLock: a lock directory with owner.json,          *)
(* initializing.json and recovering.json inside, taken by mkdir and, when  *)
(* its owner is dead, recovered by the process whose recovering.json is in *)
(* it.  One action is one file system call; the processes of a host run    *)
(* them in any order.  An owner's token is the process that made it up, a   *)
(* recovery token that process and its attempt.  A claim is empty between   *)
(* the open and the write of writeFileSync; an empty initializing.json is   *)
(* read like a full one of a live process, because the directory is new.    *)
(* Removing the directory is one step.                                      *)
(***************************************************************************)
EXTENDS Naturals, FiniteSets

CONSTANTS
  Procs,        \* processes that run acquireProcessSingletonLock
  None,
  Attempts,     \* INCOMPLETE_LOCK_RETRY_COUNT
  CrashPoints   \* program points at which a process may be killed

VARIABLES
  dir,          \* the lock directory exists
  owner,        \* token in owner.json
  init,         \* token in initializing.json
  claim,        \* the file recovering.json: who made it, in which attempt
  tmps,         \* processes whose .owner-*.tmp is in the directory
  stale,        \* processes whose quarantined claim is in the directory
  aged,         \* the incomplete lock is older than incompleteLockStaleMs
  claimAged,    \* the recovery claim is older than that
  alive, pc, attempt,
  seen,         \* "current": the owner read after EEXIST
  observed,     \* the claim read by recoverAbandonedClaim
  moved         \* the file it quarantined

diskVars == <<dir, owner, init, claim, tmps, stale, aged, claimAged>>
vars == <<diskVars, alive, pc, attempt, seen, observed, moved>>

Initializing == {"init", "tmp", "check", "rename"}
Holding == {"uninit", "held", "updTmp", "updCheck", "updRename", "unlock"}
Points == {"mkdir", "inspect", "incomplete", "claim", "fill", "observe", "quarantine",
           "compare", "link", "reread", "mismatch", "match", "remove",
           "failed", "released"} \cup Initializing \cup Holding

ASSUME LockAssumption ==
  /\ None \notin Procs \cup (Procs \X Nat)
  /\ Attempts \in Nat \ {0}
  /\ CrashPoints \subseteq Points

Token == Procs \cup {None}
Claim == (Procs \X (1..Attempts)) \cup {None}

TypeOK ==
  /\ dir \in BOOLEAN /\ aged \in BOOLEAN /\ claimAged \in BOOLEAN
  /\ owner \in Token /\ init \in Token /\ claim \in Claim
  /\ tmps \subseteq Procs /\ stale \subseteq Procs /\ alive \subseteq Procs
  /\ pc \in [Procs -> Points]
  /\ attempt \in [Procs -> 1..Attempts]
  /\ seen \in [Procs -> Token] /\ observed \in [Procs -> Claim] /\ moved \in [Procs -> Claim]

Init ==
  /\ dir = FALSE /\ aged = FALSE /\ claimAged = FALSE
  /\ owner = None /\ init = None /\ claim = None
  /\ tmps = {} /\ stale = {} /\ alive = Procs
  /\ pc = [p \in Procs |-> "mkdir"]
  /\ attempt = [p \in Procs |-> 1]
  /\ seen = [p \in Procs |-> None]
  /\ observed = [p \in Procs |-> None]
  /\ moved = [p \in Procs |-> None]

-----------------------------------------------------------------------------
At(p, l)   == p \in alive /\ pc[p] = l
Goto(p, l) == pc' = [pc EXCEPT ![p] = l]

\* Variant: attempts are not limited.
AgainUnlimited(p) == attempt' = [attempt EXCEPT ![p] = @ + 1] /\ Goto(p, "mkdir")

\* "continue": the next attempt, or the error after the last one.
Again(p) ==
  IF attempt[p] < Attempts
  THEN attempt' = [attempt EXCEPT ![p] = @ + 1] /\ Goto(p, "mkdir")
  ELSE Goto(p, "failed") /\ UNCHANGED attempt

RemoveDir ==
  /\ dir' = FALSE /\ owner' = None /\ init' = None /\ claim' = None
  /\ tmps' = {} /\ stale' = {} /\ aged' = FALSE /\ claimAged' = FALSE

\* An entry made, moved or removed renews the directory's mtime, which is the
\* lock's age as long as there is no initializing.json.
Touch == aged' = (aged /\ init # None)

readVars == <<seen, observed, moved>>

MakeDir(p) ==
  /\ At(p, "mkdir")
  /\ IF dir THEN Goto(p, "inspect") /\ UNCHANGED <<dir, aged>>
            ELSE Goto(p, "init") /\ dir' = TRUE /\ aged' = FALSE
  /\ UNCHANGED <<owner, init, claim, tmps, stale, claimAged, alive, attempt, readVars>>

\* Exclusive create of initializing.json; its startedAt is the lock's age from now on.
WriteInit(p) ==
  /\ At(p, "init")
  /\ \/ /\ dir /\ init = None
        /\ init' = p /\ aged' = FALSE /\ Goto(p, "tmp")
     \/ /\ dir /\ init # None
        /\ Goto(p, "inspect") /\ UNCHANGED <<init, aged>>
     \/ /\ ~dir
        /\ Goto(p, "failed") /\ UNCHANGED <<init, aged>>
  /\ UNCHANGED <<dir, owner, claim, tmps, stale, claimAged, alive, attempt, readVars>>

WriteTmp(p) ==
  /\ At(p, "tmp")
  /\ IF dir THEN tmps' = tmps \cup {p} /\ Touch /\ Goto(p, "check")
            ELSE Goto(p, "failed") /\ UNCHANGED <<tmps, aged>>
  /\ UNCHANGED <<dir, owner, init, claim, stale, claimAged, alive, attempt, readVars>>

\* "Process lock initialization was superseded"
CheckInit(p) ==
  /\ At(p, "check")
  /\ IF init = p THEN Goto(p, "rename") /\ UNCHANGED <<tmps, aged>>
                 ELSE Goto(p, "failed") /\ tmps' = tmps \ {p} /\ Touch
  /\ UNCHANGED <<dir, owner, init, claim, stale, claimAged, alive, attempt, readVars>>

RenameOwner(p) ==
  /\ At(p, "rename")
  /\ IF p \in tmps THEN owner' = p /\ tmps' = tmps \ {p} /\ Touch /\ Goto(p, "uninit")
                   ELSE Goto(p, "failed") /\ UNCHANGED <<owner, tmps, aged>>
  /\ UNCHANGED <<dir, init, claim, stale, claimAged, alive, attempt, readVars>>

RemoveInit(p) ==
  /\ At(p, "uninit")
  /\ init' = None /\ aged' = FALSE /\ Goto(p, "held")
  /\ UNCHANGED <<dir, owner, claim, tmps, stale, claimAged, alive, attempt, readVars>>

-----------------------------------------------------------------------------
(* The lock exists                                                         *)

LiveOwner(o) == o \in alive

InspectOwner(p) ==
  /\ At(p, "inspect")
  /\ seen' = [seen EXCEPT ![p] = owner]
  /\ Goto(p, IF LiveOwner(owner) THEN "failed"
             ELSE IF owner = None THEN "incomplete" ELSE "claim")
  /\ UNCHANGED <<diskVars, alive, attempt, observed, moved>>

\* An owner file is missing: wait for a live or recent initialization.
MustWait == LiveOwner(init) \/ ~aged

InspectIncomplete(p) ==
  /\ At(p, "incomplete")
  /\ IF MustWait THEN Again(p) ELSE Goto(p, "claim") /\ UNCHANGED attempt
  /\ UNCHANGED <<diskVars, alive, readVars>>

\* The claim p makes in this attempt.
Mine(p) == <<p, attempt[p]>>

\* What a reader finds in a claim: nothing until its maker has written it.
Content(f) == IF f # None /\ pc[f[1]] = "fill" /\ f = Mine(f[1]) THEN None ELSE f

\* claimStaleLock: exclusive create of recovering.json ...
ClaimStale(p) ==
  /\ At(p, "claim")
  /\ \/ /\ dir /\ claim = None
        /\ claim' = Mine(p) /\ claimAged' = FALSE /\ Touch
        /\ Goto(p, "fill") /\ UNCHANGED attempt
     \/ /\ dir /\ claim # None
        /\ Goto(p, "observe") /\ UNCHANGED <<claim, claimAged, aged, attempt>>
     \/ /\ ~dir
        /\ Again(p) /\ UNCHANGED <<claim, claimAged, aged>>
  /\ UNCHANGED <<dir, owner, init, tmps, stale, alive, readVars>>

\* ... and its contents, wherever the file is by now.
FillClaim(p) ==
  /\ At(p, "fill")
  /\ Goto(p, "reread")
  /\ UNCHANGED <<diskVars, alive, attempt, readVars>>

\* A live process's claim, or one written less than two seconds ago.
ClaimHeld(f) == f # None /\ (f[1] \in alive \/ ~claimAged)

\* recoverAbandonedClaim: a claim that is not held is moved away ...
ObserveClaim(p) ==
  /\ At(p, "observe")
  /\ observed' = [observed EXCEPT ![p] = Content(claim)]
  /\ IF ClaimHeld(Content(claim))
     THEN Again(p) ELSE Goto(p, "quarantine") /\ UNCHANGED attempt
  /\ UNCHANGED <<diskVars, alive, seen, moved>>

QuarantineClaim(p) ==
  /\ At(p, "quarantine")
  /\ \/ /\ claim # None
        /\ moved' = [moved EXCEPT ![p] = claim]
        /\ claim' = None /\ stale' = stale \cup {p} /\ Touch
        /\ Goto(p, "compare") /\ UNCHANGED attempt
     \/ /\ claim = None
        /\ Again(p) /\ UNCHANGED <<moved, claim, stale, aged>>
  /\ UNCHANGED <<dir, owner, init, tmps, claimAged, alive, seen, observed>>

\* ... and only removed when it is the one that was observed.
CompareClaim(p) ==
  LET found == IF p \in stale THEN Content(moved[p]) ELSE None IN
  /\ At(p, "compare")
  /\ IF found = observed[p]
     THEN stale' = stale \ {p} /\ aged' = (aged /\ (init # None \/ p \notin stale))
          /\ Goto(p, "claim")
     ELSE Goto(p, "link") /\ UNCHANGED <<stale, aged>>
  /\ UNCHANGED <<dir, owner, init, claim, tmps, claimAged, alive, attempt, readVars>>

LinkClaimBack(p) ==
  /\ At(p, "link")
  /\ \/ /\ p \in stale
        /\ claim' = IF claim = None THEN moved[p] ELSE claim
        /\ stale' = stale \ {p} /\ Touch
        /\ Again(p)
     \/ /\ p \notin stale
        /\ Goto(p, "failed") /\ UNCHANGED <<claim, stale, aged, attempt>>
  /\ UNCHANGED <<dir, owner, init, tmps, claimAged, alive, readVars>>

\* Variant: the owner is not read again under the claim.
RereadSkipped(p) ==
  /\ At(p, "reread")
  /\ Goto(p, "match")
  /\ UNCHANGED <<diskVars, alive, attempt, readVars>>

\* Variant: the owner read again is not compared with the one read first.
RereadUncompared(p) ==
  /\ At(p, "reread")
  /\ Goto(p, IF LiveOwner(owner) THEN "mismatch" ELSE "match")
  /\ seen' = [seen EXCEPT ![p] = IF LiveOwner(owner) THEN owner ELSE None]
  /\ UNCHANGED <<diskVars, alive, attempt, observed, moved>>

\* The owner is read again under the claim.
Reread(p) ==
  /\ At(p, "reread")
  /\ Goto(p, IF LiveOwner(owner) \/ (seen[p] # None /\ owner # seen[p])
             THEN "mismatch" ELSE "match")
  /\ seen' = [seen EXCEPT ![p] = IF LiveOwner(owner) THEN owner ELSE None]
  /\ UNCHANGED <<diskVars, alive, attempt, observed, moved>>

\* The claim is given up: the error for a live owner, else the next attempt.
DropClaim(p) ==
  /\ At(p, "mismatch")
  /\ claim' = None /\ Touch
  /\ IF seen[p] # None THEN Goto(p, "failed") /\ UNCHANGED attempt ELSE Again(p)
  /\ UNCHANGED <<dir, owner, init, tmps, stale, claimAged, alive, readVars>>

MatchClaim(p) ==
  /\ At(p, "match")
  /\ IF claim = Mine(p) THEN Goto(p, "remove") /\ UNCHANGED attempt ELSE Again(p)
  /\ UNCHANGED <<diskVars, alive, readVars>>

RemoveStale(p) ==
  /\ At(p, "remove")
  /\ RemoveDir
  /\ Again(p)
  /\ UNCHANGED <<alive, readVars>>

-----------------------------------------------------------------------------
(* The holder: updateDetails replaces owner.json by one with more details   *)

UpdateStarts(p) ==
  /\ At(p, "held") /\ owner = p
  /\ Goto(p, "updTmp")
  /\ UNCHANGED <<diskVars, alive, attempt, readVars>>

UpdateTmp(p) ==
  /\ At(p, "updTmp")
  /\ IF dir THEN tmps' = tmps \cup {p} /\ Touch /\ Goto(p, "updCheck")
            ELSE Goto(p, "held") /\ UNCHANGED <<tmps, aged>>
  /\ UNCHANGED <<dir, owner, init, claim, stale, claimAged, alive, attempt, readVars>>

UpdateCheck(p) ==
  /\ At(p, "updCheck")
  /\ IF owner = p THEN Goto(p, "updRename") /\ UNCHANGED <<tmps, aged>>
                  ELSE Goto(p, "held") /\ tmps' = tmps \ {p} /\ Touch
  /\ UNCHANGED <<dir, owner, init, claim, stale, claimAged, alive, attempt, readVars>>

UpdateRename(p) ==
  /\ At(p, "updRename")
  /\ IF p \in tmps THEN owner' = p /\ tmps' = tmps \ {p} /\ Touch
                   ELSE UNCHANGED <<owner, tmps, aged>>
  /\ Goto(p, "held")
  /\ UNCHANGED <<dir, init, claim, stale, claimAged, alive, attempt, readVars>>

\* release(): only the directory that still names this process is removed.
Release(p) ==
  /\ At(p, "held")
  /\ Goto(p, IF owner = p THEN "unlock" ELSE "released")
  /\ UNCHANGED <<diskVars, alive, attempt, readVars>>

Unlock(p) ==
  /\ At(p, "unlock")
  /\ RemoveDir /\ Goto(p, "released")
  /\ UNCHANGED <<alive, attempt, readVars>>

Crash(p) ==
  /\ p \in alive /\ pc[p] \in CrashPoints
  /\ alive' = alive \ {p}
  /\ UNCHANGED <<diskVars, pc, attempt, readVars>>

\* Points between two attempts, or outside acquire and release.
Resting == {"mkdir", "held", "failed", "released"}

(* Two seconds pass.  The calls of one attempt are assumed to take less:    *)
(* no live process is stopped for that long in the middle of one.           *)
Age ==
  /\ dir /\ (~aged \/ (claim # None /\ ~claimAged))
  /\ \A p \in alive : pc[p] \in Resting
  /\ aged' = TRUE
  /\ claimAged' = (claim # None)
  /\ UNCHANGED <<dir, owner, init, claim, tmps, stale, alive, pc, attempt, readVars>>

Step(p) ==
  \/ MakeDir(p) \/ WriteInit(p) \/ WriteTmp(p) \/ CheckInit(p) \/ RenameOwner(p)
  \/ RemoveInit(p) \/ InspectOwner(p) \/ InspectIncomplete(p) \/ ClaimStale(p)
  \/ FillClaim(p) \/ ObserveClaim(p) \/ QuarantineClaim(p) \/ CompareClaim(p) \/ LinkClaimBack(p)
  \/ Reread(p) \/ DropClaim(p) \/ MatchClaim(p) \/ RemoveStale(p)
  \/ UpdateStarts(p) \/ UpdateTmp(p) \/ UpdateCheck(p) \/ UpdateRename(p)
  \/ Release(p) \/ Unlock(p)

Next == Age \/ \E p \in Procs : Step(p) \/ Crash(p)

Spec == Init /\ [][Next]_vars
-----------------------------------------------------------------------------
Holders == {p \in alive : pc[p] \in Holding}

(* At most one live process has acquired the lock and not released it       *)
(* ("process lock allows exactly one concurrent child-process owner").      *)
MutualExclusion == \A p, q \in Holders : p = q

(* The directory of a live holder stays and names it: no recovery removes   *)
(* it and no other process overwrites its owner.json.                       *)
HolderOnDisk == \A p \in Holders : dir /\ owner = p
=============================================================================
