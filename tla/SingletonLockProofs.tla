------------------------ MODULE SingletonLockProofs ------------------------
(***************************************************************************)
(* Proofs about SingletonLock for any number of processes and attempts,    *)
(* and whatever process dies at whatever point: type correctness, and that *)
(* the files of the lock directory are truthful about the processes that   *)
(* made them.  That at most one process has the lock is not provable: it   *)
(* does not hold for every number of processes and every point of death.   *)
(***************************************************************************)
EXTENDS SingletonLock, TLAPS

\* Points of a process whose token is in initializing.json.
Making == {"tmp", "check", "rename", "uninit"}

(* A process that is turned away because owner.json names a live process    *)
(* ("is already running") is turned away by one that took the lock and has  *)
(* not released it, also after recoveries, overwritten owner files and      *)
(* updates of the details.                                                  *)
RefusedByHolder == owner \in alive => owner \in Holders

(* A process that waits because initializing.json names a live process waits *)
(* for one that is still making the lock; a temporary file or a quarantined  *)
(* claim of a live process is one it will still rename or remove.  So no     *)
(* process that gave up is waited for, and nothing of it is left.            *)
NothingLeftByLiving ==
  /\ init \in alive => pc[init] \in Making
  /\ \A p \in tmps \cap alive : pc[p] \in {"check", "rename", "updCheck", "updRename"}
  /\ \A p \in stale \cap alive : pc[p] \in {"compare", "link"}

(* The inductive invariant: both, for dead owners and makers too, and what   *)
(* the paths back to "mkdir" or to the error rest on.                        *)
FilesTruthful ==
  /\ ~dir => owner = None /\ init = None /\ tmps = {} /\ stale = {}
  /\ owner # None => pc[owner] \in Holding
  /\ init # None => pc[init] \in Making
  /\ \A p \in tmps : pc[p] \in {"check", "rename", "updCheck", "updRename"}
  /\ \A p \in stale : pc[p] \in {"compare", "link"}
  /\ \A p \in Procs : init = p /\ pc[p] \in {"check", "rename"} => p \in tmps

ClaimInside == ~dir => claim = None /\ stale = {}

-----------------------------------------------------------------------------
(* Types                                                                   *)

(* Moving on, or to the next attempt, keeps the types.                      *)
LEMMA MoveTypes ==
  ASSUME TypeOK, NEW p \in Procs
  PROVE  /\ \A l \in Points : Goto(p, l) => pc' \in [Procs -> Points]
         /\ Again(p) => pc' \in [Procs -> Points] /\ attempt' \in [Procs -> 1..Attempts]
<1>1. \A l \in Points : Goto(p, l) => pc' \in [Procs -> Points]
  BY DEF TypeOK, Goto
<1>2. "mkdir" \in Points /\ "failed" \in Points
  BY DEF Points
<1>3. ASSUME Again(p)
      PROVE  pc' \in [Procs -> Points] /\ attempt' \in [Procs -> 1..Attempts]
  <2>1. pc' \in [Procs -> Points]
    BY <1>1, <1>2, <1>3 DEF Again
  <2>2. attempt' \in [Procs -> 1..Attempts]
    BY <1>3, LockAssumption DEF Again, TypeOK
  <2> QED BY <2>1, <2>2
<1> QED BY <1>1, <1>3

(* Every step of a process keeps the types.                                 *)
LEMMA StepType ==
  ASSUME TypeOK, NEW p \in Procs, Step(p)
  PROVE  TypeOK'
<1>0. Points = {"mkdir", "inspect", "incomplete", "claim", "fill", "observe", "quarantine",
                "compare", "link", "reread", "mismatch", "match", "remove",
                "failed", "released"} \cup {"init", "tmp", "check", "rename"}
                \cup {"uninit", "held", "updTmp", "updCheck", "updRename", "unlock"}
  BY DEF Points, Initializing, Holding
<1>a. /\ \A l \in Points : Goto(p, l) => pc' \in [Procs -> Points]
      /\ Again(p) => pc' \in [Procs -> Points] /\ attempt' \in [Procs -> 1..Attempts]
  BY MoveTypes
<1>b. Mine(p) \in Claim /\ None \in Claim
  BY DEF Mine, Claim, TypeOK
<1> USE <1>0, <1>a, <1>b DEF TypeOK, Token, readVars, diskVars, Touch
<1>1. CASE MakeDir(p)
  BY <1>1 DEF MakeDir
<1>2. CASE WriteInit(p)
  BY <1>2 DEF WriteInit
<1>3. CASE WriteTmp(p)
  BY <1>3 DEF WriteTmp
<1>4. CASE CheckInit(p)
  BY <1>4 DEF CheckInit
<1>5. CASE RenameOwner(p)
  BY <1>5 DEF RenameOwner
<1>6. CASE RemoveInit(p)
  BY <1>6 DEF RemoveInit
<1>7. CASE InspectOwner(p)
  <2>1. pc' \in [Procs -> Points]
    <3>1. "failed" \in Points /\ "incomplete" \in Points /\ "claim" \in Points
      BY <1>0
    <3> QED BY <3>1, <1>7 DEF InspectOwner, Goto
  <2> QED BY <2>1, <1>7 DEF InspectOwner
<1>8. CASE InspectIncomplete(p)
  <2>1. pc' \in [Procs -> Points] /\ attempt' \in [Procs -> 1..Attempts]
    BY <1>8 DEF InspectIncomplete
  <2> QED BY <2>1, <1>8 DEF InspectIncomplete
<1>9. CASE ClaimStale(p)
  BY <1>9 DEF ClaimStale
<1>10. CASE FillClaim(p)
  BY <1>10 DEF FillClaim
<1>11. CASE ObserveClaim(p)
  <2>1. pc' \in [Procs -> Points] /\ attempt' \in [Procs -> 1..Attempts]
    BY <1>11 DEF ObserveClaim
  <2>2. Content(claim) \in Claim
    BY DEF Content, Claim
  <2>3. observed' \in [Procs -> Claim]
    BY <2>2, <1>11 DEF ObserveClaim
  <2> QED BY <2>1, <2>3, <1>11 DEF ObserveClaim
<1>12. CASE QuarantineClaim(p)
  BY <1>12 DEF QuarantineClaim
<1>13. CASE CompareClaim(p)
  BY <1>13 DEF CompareClaim
<1>14. CASE LinkClaimBack(p)
  BY <1>14 DEF LinkClaimBack
<1>15. CASE Reread(p)
  <2>1. pc' \in [Procs -> Points]
    <3>1. "mismatch" \in Points /\ "match" \in Points
      BY <1>0
    <3> QED BY <3>1, <1>15 DEF Reread, Goto
  <2>2. seen' \in [Procs -> Token]
    BY <1>15 DEF Reread
  <2> QED BY <2>1, <2>2, <1>15 DEF Reread
<1>16. CASE DropClaim(p)
  BY <1>16 DEF DropClaim
<1>17. CASE MatchClaim(p)
  BY <1>17 DEF MatchClaim
<1>18. CASE RemoveStale(p)
  BY <1>18 DEF RemoveStale, RemoveDir
<1>19. CASE UpdateStarts(p)
  BY <1>19 DEF UpdateStarts
<1>20. CASE UpdateTmp(p)
  BY <1>20 DEF UpdateTmp
<1>21. CASE UpdateCheck(p)
  BY <1>21 DEF UpdateCheck
<1>22. CASE UpdateRename(p)
  BY <1>22 DEF UpdateRename
<1>23. CASE Release(p)
  <2>1. "unlock" \in Points /\ "released" \in Points
    BY <1>0
  <2>2. pc' \in [Procs -> Points]
    BY <2>1, <1>23 DEF Release, Goto
  <2> QED BY <2>2, <1>23 DEF Release
<1>24. CASE Unlock(p)
  BY <1>24 DEF Unlock, RemoveDir
<1> QED BY <1>1, <1>2, <1>3, <1>4, <1>5, <1>6, <1>7, <1>8, <1>9, <1>10, <1>11, <1>12, <1>13, <1>14, <1>15, <1>16, <1>17, <1>18, <1>19, <1>20, <1>21, <1>22, <1>23, <1>24 DEF Step

(* Every variable has its type in every reachable state of                   *)
(* acquireProcessSingletonLock, for any number of processes and attempts.    *)
THEOREM TypeCorrect == Spec => []TypeOK
<1>1. Init => TypeOK
  <2>1. "mkdir" \in Points /\ None \in Claim /\ None \in Token /\ 1 \in 1..Attempts
    BY LockAssumption DEF Points, Claim, Token
  <2> QED BY <2>1 DEF Init, TypeOK
<1>2. TypeOK /\ [Next]_vars => TypeOK'
  <2>1. ASSUME TypeOK, Age PROVE TypeOK'
    BY <2>1 DEF Age, TypeOK, readVars
  <2>2. ASSUME TypeOK, NEW p \in Procs, Crash(p) PROVE TypeOK'
    BY <2>2 DEF Crash, TypeOK, readVars, diskVars
  <2>3. ASSUME TypeOK, UNCHANGED vars PROVE TypeOK'
    BY <2>3 DEF vars, TypeOK, diskVars
  <2> QED BY <2>1, <2>2, <2>3, StepType DEF Next
<1> QED BY <1>1, <1>2, PTL DEF Spec

-----------------------------------------------------------------------------
(* The files of the lock directory                                         *)

(* A step that moves one process, and leaves the files as they are or takes  *)
(* some away, keeps the invariant if no file is left that the process only   *)
(* has at the point it came from.                                            *)
LEMMA MoveKeepsFiles ==
  ASSUME TypeOK, FilesTruthful, NEW p \in Procs, NEW l \in Points, Goto(p, l),
         ~dir' => owner' = None /\ init' = None /\ tmps' = {} /\ stale' = {},
         owner' \in {owner, None}, init' \in {init, None}, tmps' \subseteq tmps, stale' \subseteq stale,
         init' # None => tmps \ {p} \subseteq tmps',
         owner' = p => l \in Holding,
         init' = p => l \in Making /\ (l \in {"check", "rename"} => p \in tmps'),
         p \in tmps' => l \in {"check", "rename", "updCheck", "updRename"},
         p \in stale' => l \in {"compare", "link"}
  PROVE  FilesTruthful'
<1>1. pc' = [pc EXCEPT ![p] = l] /\ pc \in [Procs -> Points]
  BY DEF Goto, TypeOK
<1>2. pc'[p] = l /\ \A q \in Procs : q # p => pc'[q] = pc[q]
  BY <1>1
<1>3. owner' # None => owner' \in Procs /\ pc'[owner'] \in Holding
  BY <1>2 DEF FilesTruthful, TypeOK, Token
<1>4. init' # None => init' \in Procs /\ pc'[init'] \in Making
  BY <1>2 DEF FilesTruthful, TypeOK, Token
<1>5. \A q \in tmps' : pc'[q] \in {"check", "rename", "updCheck", "updRename"}
  BY <1>2 DEF FilesTruthful, TypeOK
<1>6. \A q \in stale' : pc'[q] \in {"compare", "link"}
  BY <1>2 DEF FilesTruthful, TypeOK
<1>7. \A q \in Procs : init' = q /\ pc'[q] \in {"check", "rename"} => q \in tmps'
  BY <1>2, LockAssumption DEF FilesTruthful, TypeOK
<1> QED BY <1>3, <1>4, <1>5, <1>6, <1>7 DEF FilesTruthful

(* The next attempt or the error: no file but a claim is left.               *)
LEMMA AgainKeepsFiles ==
  ASSUME TypeOK, FilesTruthful, NEW p \in Procs, Again(p),
         \/ UNCHANGED <<dir, owner, init, tmps, stale>>
         \/ dir' /\ UNCHANGED <<owner, init, tmps>> /\ stale' = stale \ {p}
         \/ RemoveDir,
         pc[p] \notin Holding \cup Making,
         pc[p] \notin {"check", "rename", "updCheck", "updRename", "compare"},
         pc[p] = "link" => p \notin stale'
  PROVE  FilesTruthful'
<1>1. PICK l \in {"mkdir", "failed"} : Goto(p, l)
  BY DEF Again
<1>2. l \in Points
  BY DEF Points
<1>3. owner # p /\ init # p /\ p \notin tmps /\ p \notin stale'
  BY LockAssumption DEF FilesTruthful, RemoveDir
<1>4. /\ ~dir' => owner' = None /\ init' = None /\ tmps' = {} /\ stale' = {}
      /\ owner' \in {owner, None} /\ init' \in {init, None} /\ tmps' \subseteq tmps /\ stale' \subseteq stale
      /\ init' # None => tmps \ {p} \subseteq tmps'
  BY DEF RemoveDir, FilesTruthful
<1>5. owner' # p /\ init' # p /\ p \notin tmps'
  BY <1>3, <1>4, LockAssumption
<1> QED BY <1>1, <1>2, <1>3, <1>4, <1>5, MoveKeepsFiles

(* A claim, in its place or quarantined, is in the directory.                *)
LEMMA StepKeepsClaims ==
  ASSUME TypeOK, ClaimInside, NEW p \in Procs, Step(p)
  PROVE  ClaimInside'
BY DEF ClaimInside, Step, MakeDir, WriteInit, WriteTmp, CheckInit, RenameOwner, RemoveInit, InspectOwner,
       InspectIncomplete, ClaimStale, FillClaim, ObserveClaim, QuarantineClaim, CompareClaim, LinkClaimBack,
       Reread, DropClaim, MatchClaim, RemoveStale, UpdateStarts, UpdateTmp, UpdateCheck, UpdateRename,
       Release, Unlock, RemoveDir, diskVars

(* Every step of a process keeps the files truthful.                         *)
LEMMA StepKeepsFiles ==
  ASSUME TypeOK, FilesTruthful, ClaimInside, NEW p \in Procs, Step(p)
  PROVE  FilesTruthful'
<1>0. /\ Holding = {"uninit", "held", "updTmp", "updCheck", "updRename", "unlock"}
      /\ {"mkdir", "inspect", "incomplete", "claim", "fill", "observe", "quarantine", "compare",
          "link", "reread", "mismatch", "match", "remove", "failed", "released", "init", "tmp", "check",
          "rename", "uninit", "held", "updTmp", "updCheck", "updRename", "unlock"} \subseteq Points
  BY DEF Points, Initializing, Holding
<1>a. pc \in [Procs -> Points] /\ tmps \subseteq Procs /\ stale \subseteq Procs /\ p # None
  BY LockAssumption DEF TypeOK
<1>b. /\ pc[p] \notin Holding => owner # p
      /\ pc[p] \notin Making => init # p
      /\ pc[p] \notin {"check", "rename", "updCheck", "updRename"} => p \notin tmps
      /\ pc[p] \notin {"compare", "link"} => p \notin stale
  BY <1>a DEF FilesTruthful
<1>c. ~dir => owner = None /\ init = None /\ tmps = {} /\ stale = {}
  BY DEF FilesTruthful
\* Steps that change no file that the invariant is about.
<1>1. ASSUME NEW l \in Points, Goto(p, l), UNCHANGED <<dir, owner, init, tmps, stale>>,
             pc[p] \in Holding => l \in Holding \/ owner # p,
             pc[p] \notin Making, pc[p] \notin {"updCheck", "updRename", "compare", "link"}
      PROVE  FilesTruthful'
  <2>1. pc[p] \notin {"check", "rename"}
    BY <1>1 DEF Making
  <2> QED BY <1>1, <1>a, <1>b, <1>c, <2>1, MoveKeepsFiles
<1>2. CASE MakeDir(p)
  <2>1. pc[p] = "mkdir" /\ UNCHANGED <<owner, init, tmps, stale>> /\ dir'
    BY <1>2 DEF MakeDir, At
  <2>2. PICK l \in {"inspect", "init"} : Goto(p, l)
    BY <1>2 DEF MakeDir
  <2>3. owner # p /\ init # p /\ p \notin tmps /\ p \notin stale
    BY <2>1, <1>0, <1>b DEF Making
  <2> QED BY <2>1, <2>2, <2>3, <1>0, <1>a, MoveKeepsFiles
<1>3. CASE WriteInit(p)
  <2>1. pc[p] = "init" /\ UNCHANGED <<dir, owner, tmps, stale>>
    BY <1>3 DEF WriteInit, At
  <2>2. owner # p /\ init # p /\ p \notin tmps /\ p \notin stale
    BY <2>1, <1>0, <1>b DEF Making
  <2>3. CASE dir /\ init = None /\ init' = p /\ Goto(p, "tmp")
    <3>1. pc' = [pc EXCEPT ![p] = "tmp"]
      BY <2>3 DEF Goto
    <3>2. /\ owner' # None => pc'[owner'] \in Holding
          /\ \A q \in tmps' : pc'[q] \in {"check", "rename", "updCheck", "updRename"}
          /\ \A q \in stale' : pc'[q] \in {"compare", "link"}
      BY <2>1, <2>2, <3>1, <1>a DEF FilesTruthful, TypeOK, Token
    <3>3. init' = p /\ pc'[p] = "tmp"
      BY <2>3, <3>1, <1>a
    <3> QED BY <2>1, <2>3, <3>2, <3>3, <1>a DEF FilesTruthful, Making
  <2>4. CASE UNCHANGED init /\ \E l \in {"inspect", "failed"} : Goto(p, l)
    BY <2>1, <2>4, <1>0, <1>1, <1>b DEF Making
  <2> QED BY <1>3, <2>3, <2>4 DEF WriteInit
<1>4. CASE WriteTmp(p)
  <2>1. pc[p] = "tmp" /\ UNCHANGED <<dir, owner, init, stale>>
    BY <1>4 DEF WriteTmp, At
  <2>2. owner # p /\ p \notin stale
    BY <2>1, <1>0, <1>b
  <2>3. CASE dir /\ tmps' = tmps \cup {p} /\ Goto(p, "check")
    <3>1. pc'[p] = "check" /\ \A q \in Procs : q # p => pc'[q] = pc[q]
      BY <2>3, <1>a DEF Goto
    <3>2. /\ owner' # None => pc'[owner'] \in Holding
          /\ init' # None => pc'[init'] \in Making
      BY <2>1, <2>2, <3>1 DEF FilesTruthful, TypeOK, Token, Making
    <3>3. /\ \A q \in tmps' : pc'[q] \in {"check", "rename", "updCheck", "updRename"}
          /\ \A q \in stale' : pc'[q] \in {"compare", "link"}
          /\ \A q \in Procs : init' = q /\ pc'[q] \in {"check", "rename"} => q \in tmps'
      BY <2>1, <2>2, <2>3, <3>1, <1>a DEF FilesTruthful
    <3> QED BY <2>1, <2>3, <3>2, <3>3 DEF FilesTruthful
  <2>4. CASE ~dir /\ UNCHANGED tmps /\ Goto(p, "failed")
    BY <2>1, <2>2, <2>4, <1>0, <1>a, <1>c, MoveKeepsFiles
  <2> QED BY <1>4, <2>3, <2>4 DEF WriteTmp
<1>5. CASE CheckInit(p)
  <2>1. pc[p] = "check" /\ UNCHANGED <<dir, owner, init, stale>>
    BY <1>5 DEF CheckInit, At
  <2>2. owner # p /\ p \notin stale
    BY <2>1, <1>0, <1>b
  <2>3. CASE init = p /\ Goto(p, "rename") /\ UNCHANGED tmps
    <3>1. p \in tmps
      BY <2>1, <2>3 DEF FilesTruthful
    <3> QED BY <2>1, <2>2, <2>3, <3>1, <1>0, <1>a, <1>c, MoveKeepsFiles DEF Making
  <2>4. CASE init # p /\ Goto(p, "failed") /\ tmps' = tmps \ {p}
    BY <2>1, <2>2, <2>4, <1>0, <1>a, <1>c, MoveKeepsFiles
  <2> QED BY <1>5, <2>3, <2>4 DEF CheckInit
<1>6. CASE RenameOwner(p)
  <2>1. pc[p] = "rename" /\ UNCHANGED <<dir, init, stale>>
    BY <1>6 DEF RenameOwner, At
  <2>2. owner # p /\ p \notin stale
    BY <2>1, <1>0, <1>b
  <2>3. CASE p \in tmps /\ owner' = p /\ tmps' = tmps \ {p} /\ Goto(p, "uninit")
    <3>1. pc'[p] = "uninit" /\ \A q \in Procs : q # p => pc'[q] = pc[q]
      BY <2>3, <1>a DEF Goto
    <3>2. dir
      BY <2>3, <1>c
    <3>3. /\ owner' # None => pc'[owner'] \in Holding
          /\ init' # None => pc'[init'] \in Making
      BY <2>1, <2>3, <3>1, <1>0 DEF FilesTruthful, TypeOK, Token, Making
    <3>4. /\ \A q \in tmps' : pc'[q] \in {"check", "rename", "updCheck", "updRename"}
          /\ \A q \in stale' : pc'[q] \in {"compare", "link"}
          /\ \A q \in Procs : init' = q /\ pc'[q] \in {"check", "rename"} => q \in tmps'
      BY <2>1, <2>2, <2>3, <3>1, <1>a DEF FilesTruthful
    <3> QED BY <2>1, <3>2, <3>3, <3>4 DEF FilesTruthful
  <2>4. CASE p \notin tmps /\ Goto(p, "failed") /\ UNCHANGED <<owner, tmps>>
    <3>1. init # p
      BY <2>1, <2>4 DEF FilesTruthful
    <3> QED BY <2>1, <2>2, <2>4, <3>1, <1>0, <1>a, <1>c, MoveKeepsFiles
  <2> QED BY <1>6, <2>3, <2>4 DEF RenameOwner
<1>7. CASE RemoveInit(p)
  <2>1. pc[p] = "uninit" /\ Goto(p, "held") /\ init' = None /\ UNCHANGED <<dir, owner, tmps, stale>>
    BY <1>7 DEF RemoveInit, At
  <2>2. p \notin tmps /\ p \notin stale
    BY <2>1, <1>b
  <2> QED BY <2>1, <2>2, <1>0, <1>a, <1>c, MoveKeepsFiles
<1>8. CASE InspectOwner(p) \/ FillClaim(p) \/ Reread(p)
  <2>1. /\ pc[p] \in {"inspect", "fill", "reread"} /\ UNCHANGED <<dir, owner, init, tmps, stale>>
        /\ \E l \in {"failed", "incomplete", "claim", "reread", "mismatch", "match"} : Goto(p, l)
    BY <1>8 DEF InspectOwner, FillClaim, Reread, At, diskVars
  <2> QED BY <2>1, <1>0, <1>1 DEF Making
<1>9. CASE InspectIncomplete(p) \/ ObserveClaim(p) \/ MatchClaim(p)
  <2>1. /\ pc[p] \in {"incomplete", "observe", "match"} /\ UNCHANGED <<dir, owner, init, tmps, stale>>
        /\ Again(p) \/ \E l \in {"claim", "quarantine", "remove"} : Goto(p, l)
    BY <1>9 DEF InspectIncomplete, ObserveClaim, MatchClaim, At, diskVars
  <2>2. CASE Again(p)
    BY <2>1, <2>2, <1>0, AgainKeepsFiles DEF Making
  <2>3. CASE \E l \in {"claim", "quarantine", "remove"} : Goto(p, l)
    BY <2>1, <2>3, <1>0, <1>1 DEF Making
  <2> QED BY <2>1, <2>2, <2>3
<1>10. CASE ClaimStale(p)
  <2>1. /\ pc[p] = "claim" /\ UNCHANGED <<dir, owner, init, tmps, stale>>
        /\ Again(p) \/ \E l \in {"fill", "observe"} : Goto(p, l)
    BY <1>10 DEF ClaimStale, At
  <2>2. CASE Again(p)
    BY <2>1, <2>2, <1>0, AgainKeepsFiles DEF Making
  <2>3. CASE \E l \in {"fill", "observe"} : Goto(p, l)
    BY <2>1, <2>3, <1>0, <1>1 DEF Making
  <2> QED BY <2>1, <2>2, <2>3
<1>11. CASE QuarantineClaim(p)
  <2>1. pc[p] = "quarantine" /\ UNCHANGED <<dir, owner, init, tmps>>
    BY <1>11 DEF QuarantineClaim, At
  <2>2. CASE claim # None /\ stale' = stale \cup {p} /\ Goto(p, "compare")
    <3>1. pc'[p] = "compare" /\ \A q \in Procs : q # p => pc'[q] = pc[q]
      BY <2>2, <1>a DEF Goto
    <3>2. owner # p /\ init # p /\ p \notin tmps
      BY <2>1, <1>0, <1>b DEF Making
    <3>3. dir
      BY <2>2 DEF ClaimInside
    <3>4. /\ owner' # None => pc'[owner'] \in Holding
          /\ init' # None => pc'[init'] \in Making
      BY <2>1, <3>1, <3>2 DEF FilesTruthful, TypeOK, Token
    <3>5. /\ \A q \in tmps' : pc'[q] \in {"check", "rename", "updCheck", "updRename"}
          /\ \A q \in stale' : pc'[q] \in {"compare", "link"}
          /\ \A q \in Procs : init' = q /\ pc'[q] \in {"check", "rename"} => q \in tmps'
      BY <2>1, <2>2, <3>1, <3>2, <1>a DEF FilesTruthful
    <3> QED BY <2>1, <3>3, <3>4, <3>5 DEF FilesTruthful
  <2>3. CASE Again(p) /\ UNCHANGED stale
    BY <2>1, <2>3, <1>0, AgainKeepsFiles DEF Making
  <2> QED BY <1>11, <2>2, <2>3 DEF QuarantineClaim
<1>12. CASE CompareClaim(p)
  <2>1. /\ pc[p] = "compare" /\ UNCHANGED <<dir, owner, init, tmps>>
        /\ \/ stale' = stale \ {p} /\ Goto(p, "claim")
           \/ stale' = stale /\ Goto(p, "link")
    BY <1>12 DEF CompareClaim, At
  <2>2. owner # p /\ init # p /\ p \notin tmps
    BY <2>1, <1>0, <1>b DEF Making
  <2> QED BY <2>1, <2>2, <1>0, <1>a, <1>c, MoveKeepsFiles
<1>13. CASE LinkClaimBack(p)
  <2>1. pc[p] = "link" /\ UNCHANGED <<dir, owner, init, tmps>>
    BY <1>13 DEF LinkClaimBack, At
  <2>2. owner # p /\ init # p /\ p \notin tmps
    BY <2>1, <1>0, <1>b DEF Making
  <2>3. CASE p \in stale /\ stale' = stale \ {p} /\ Again(p)
    <3>1. dir
      BY <2>3, <1>c
    <3> QED BY <2>1, <2>3, <3>1, <1>0, AgainKeepsFiles DEF Making
  <2>4. CASE p \notin stale /\ UNCHANGED stale /\ Goto(p, "failed")
    BY <2>1, <2>2, <2>4, <1>0, <1>a, <1>c, MoveKeepsFiles
  <2> QED BY <1>13, <2>3, <2>4 DEF LinkClaimBack
<1>14. CASE DropClaim(p)
  <2>1. /\ pc[p] = "mismatch" /\ UNCHANGED <<dir, owner, init, tmps, stale>>
        /\ Again(p) \/ Goto(p, "failed")
    BY <1>14 DEF DropClaim, At
  <2>2. CASE Again(p)
    BY <2>1, <2>2, <1>0, AgainKeepsFiles DEF Making
  <2>3. CASE Goto(p, "failed")
    BY <2>1, <2>3, <1>0, <1>1 DEF Making
  <2> QED BY <2>1, <2>2, <2>3
<1>15. CASE RemoveStale(p)
  <2>1. pc[p] = "remove" /\ RemoveDir /\ Again(p)
    BY <1>15 DEF RemoveStale, At
  <2> QED BY <2>1, <1>0, AgainKeepsFiles DEF Making
<1>16. CASE UpdateStarts(p)
  <2>1. pc[p] = "held" /\ UNCHANGED <<dir, owner, init, tmps, stale>> /\ Goto(p, "updTmp")
    BY <1>16 DEF UpdateStarts, At, diskVars
  <2> QED BY <2>1, <1>0, <1>1 DEF Making
<1>17. CASE UpdateTmp(p)
  <2>1. pc[p] = "updTmp" /\ UNCHANGED <<dir, owner, init, stale>>
    BY <1>17 DEF UpdateTmp, At
  <2>2. init # p /\ p \notin stale /\ p \notin tmps
    BY <2>1, <1>b DEF Making
  <2>3. CASE dir /\ tmps' = tmps \cup {p} /\ Goto(p, "updCheck")
    <3>1. pc'[p] = "updCheck" /\ \A q \in Procs : q # p => pc'[q] = pc[q]
      BY <2>3, <1>a DEF Goto
    <3>2. /\ owner' # None => pc'[owner'] \in Holding
          /\ init' # None => pc'[init'] \in Making
      BY <2>1, <2>2, <3>1, <1>0 DEF FilesTruthful, TypeOK, Token
    <3>3. /\ \A q \in tmps' : pc'[q] \in {"check", "rename", "updCheck", "updRename"}
          /\ \A q \in stale' : pc'[q] \in {"compare", "link"}
          /\ \A q \in Procs : init' = q /\ pc'[q] \in {"check", "rename"} => q \in tmps'
      BY <2>1, <2>2, <2>3, <3>1, <1>a DEF FilesTruthful
    <3> QED BY <2>1, <2>3, <3>2, <3>3 DEF FilesTruthful
  <2>4. CASE ~dir /\ UNCHANGED tmps /\ Goto(p, "held")
    BY <2>1, <2>2, <2>4, <1>0, <1>1 DEF Making
  <2> QED BY <1>17, <2>3, <2>4 DEF UpdateTmp
<1>18. CASE UpdateCheck(p)
  <2>1. pc[p] = "updCheck" /\ UNCHANGED <<dir, owner, init, stale>>
    BY <1>18 DEF UpdateCheck, At
  <2>2. init # p /\ p \notin stale
    BY <2>1, <1>b DEF Making
  <2>3. CASE Goto(p, "updRename") /\ UNCHANGED tmps
    BY <2>1, <2>2, <2>3, <1>0, <1>a, <1>c, MoveKeepsFiles
  <2>4. CASE Goto(p, "held") /\ tmps' = tmps \ {p}
    BY <2>1, <2>2, <2>4, <1>0, <1>a, <1>c, MoveKeepsFiles
  <2> QED BY <1>18, <2>3, <2>4 DEF UpdateCheck
<1>19. CASE UpdateRename(p)
  <2>1. pc[p] = "updRename" /\ UNCHANGED <<dir, init, stale>> /\ Goto(p, "held")
    BY <1>19 DEF UpdateRename, At
  <2>2. init # p /\ p \notin stale
    BY <2>1, <1>b DEF Making
  <2>3. CASE p \in tmps /\ owner' = p /\ tmps' = tmps \ {p}
    <3>1. pc'[p] = "held" /\ \A q \in Procs : q # p => pc'[q] = pc[q]
      BY <2>1, <1>a DEF Goto
    <3>2. dir
      BY <2>3, <1>c
    <3>3. /\ owner' # None => pc'[owner'] \in Holding
          /\ init' # None => pc'[init'] \in Making
      BY <2>1, <2>2, <2>3, <3>1, <1>0 DEF FilesTruthful, TypeOK, Token
    <3>4. /\ \A q \in tmps' : pc'[q] \in {"check", "rename", "updCheck", "updRename"}
          /\ \A q \in stale' : pc'[q] \in {"compare", "link"}
          /\ \A q \in Procs : init' = q /\ pc'[q] \in {"check", "rename"} => q \in tmps'
      BY <2>1, <2>2, <2>3, <3>1, <1>a DEF FilesTruthful
    <3> QED BY <2>1, <3>2, <3>3, <3>4 DEF FilesTruthful
  <2>4. CASE p \notin tmps /\ UNCHANGED <<owner, tmps>>
    BY <2>1, <2>2, <2>4, <1>0, <1>a, <1>c, MoveKeepsFiles
  <2> QED BY <1>19, <2>3, <2>4 DEF UpdateRename
<1>20. CASE Release(p)
  <2>1. /\ pc[p] = "held" /\ UNCHANGED <<dir, owner, init, tmps, stale>>
        /\ \E l \in {"unlock", "released"} : Goto(p, l) /\ (l = "unlock" \/ owner # p)
    BY <1>20 DEF Release, At, diskVars
  <2> QED BY <2>1, <1>0, <1>1 DEF Making
<1>21. CASE Unlock(p)
  <2>1. /\ pc[p] = "unlock" /\ Goto(p, "released") /\ ~dir'
        /\ owner' = None /\ init' = None /\ tmps' = {} /\ stale' = {}
    BY <1>21 DEF Unlock, At, RemoveDir
  <2> QED BY <2>1, <1>0, <1>a, MoveKeepsFiles
<1> QED BY <1>2, <1>3, <1>4, <1>5, <1>6, <1>7, <1>8, <1>9, <1>10, <1>11, <1>12, <1>13, <1>14, <1>15, <1>16,
           <1>17, <1>18, <1>19, <1>20, <1>21 DEF Step

(* The files are truthful in every reachable state.                          *)
LEMMA FilesStayTruthful == Spec => []FilesTruthful
<1>1. Init => FilesTruthful /\ ClaimInside
  BY LockAssumption DEF Init, FilesTruthful, ClaimInside
<1>2. TypeOK /\ FilesTruthful /\ ClaimInside /\ [Next]_vars => FilesTruthful' /\ ClaimInside'
  <2>1. ASSUME FilesTruthful, ClaimInside, UNCHANGED <<dir, owner, init, claim, tmps, stale, pc>>
        PROVE  FilesTruthful' /\ ClaimInside'
    BY <2>1 DEF FilesTruthful, ClaimInside
  <2>2. \A p \in Procs : Crash(p) => UNCHANGED <<dir, owner, init, claim, tmps, stale, pc>>
    BY DEF Crash, diskVars
  <2>3. Age \/ UNCHANGED vars => UNCHANGED <<dir, owner, init, claim, tmps, stale, pc>>
    BY DEF Age, vars, diskVars
  <2> QED BY <2>1, <2>2, <2>3, StepKeepsFiles, StepKeepsClaims DEF Next
<1> QED BY <1>1, <1>2, TypeCorrect, PTL DEF Spec

(* acquireProcessSingletonLock, ProcessSingletonError: whatever processes die *)
(* at whatever point and however many contend, the live process that         *)
(* owner.json names took the lock and has not released it.                   *)
THEOREM RefusalsNameAHolder == Spec => []RefusedByHolder
<1>1. TypeOK /\ FilesTruthful => RefusedByHolder
  BY LockAssumption DEF FilesTruthful, RefusedByHolder, Holders, TypeOK
<1> QED BY <1>1, TypeCorrect, FilesStayTruthful, PTL

(* waitForIncompleteLock, writeOwner, updateOwner, recoverAbandonedClaim: an   *)
(* initialization that others wait for is under way as long as its process   *)
(* lives, and no live process has left a temporary or quarantined file.      *)
THEOREM LiveFilesInUse == Spec => []NothingLeftByLiving
<1>1. TypeOK /\ FilesTruthful => NothingLeftByLiving
  BY LockAssumption DEF FilesTruthful, NothingLeftByLiving, TypeOK
<1> QED BY <1>1, TypeCorrect, FilesStayTruthful, PTL
=============================================================================
