--------------------------- MODULE DocumentStore ---------------------------
(***************************************************************************)
(* What the files of one Story promise to their clients: requests are      *)
(* taken one at a time, each changes the documents at most once and all    *)
(* at once, and nothing else changes them, whatever fails, stops or        *)
(* restarts in between.  The code makes two exceptions.  The deletion of   *)
(* the whole Story, interrupted by the death of the process, may have      *)
(* taken the documents away although the Story is still there.  And a call *)
(* without the Story's lock that does not find a file, because a request   *)
(* is moving it just then, takes the document's index row away; a document *)
(* without a row is no longer protected and may be lost later on.          *)
(***************************************************************************)
CONSTANTS Paths,     \* document paths of the Story
          Contents,  \* contents a client can upload
          NoFile     \* stands for the absence of a document

VARIABLES docs,      \* the documents: a content or NoFile per path
          req,       \* the request in progress, with whether it took effect
          orphans,   \* documents without an index row
          missed     \* paths whose file a call without the lock did not find

vars == <<docs, req, orphans, missed>>

NoDocs == [p \in Paths |-> NoFile]

Requests ==
  [kind : {"write"}, path : Paths, next : {NoFile}, content : Contents]
  \cup [kind : {"rename"}, path : Paths, next : Paths, content : {NoFile}]
  \cup [kind : {"delete"}, path : Paths, next : {NoFile}, content : {NoFile}]
  \cup [kind : {"drop"}, path : {NoFile}, next : {NoFile}, content : {NoFile}]

NoRequest == [kind |-> "none", path |-> NoFile, next |-> NoFile, content |-> NoFile]

Idle == [request |-> NoRequest, done |-> FALSE]

\* The documents after request r took effect.
After(r) ==
  CASE r.kind = "write"  -> [docs EXCEPT ![r.path] = r.content]
    [] r.kind = "rename" -> [docs EXCEPT ![r.next] = docs[r.path], ![r.path] = NoFile]
    [] r.kind = "delete" -> [docs EXCEPT ![r.path] = NoFile]
    [] r.kind = "drop"   -> NoDocs

Init == docs = NoDocs /\ req = Idle /\ orphans = {} /\ missed = {}

Begin(r) ==
  /\ req = Idle
  /\ req' = [request |-> r, done |-> FALSE]
  /\ UNCHANGED <<docs, orphans, missed>>

Effect ==
  /\ req # Idle
  /\ ~req.done
  /\ docs' = After(req.request)
  /\ req' = [req EXCEPT !.done = TRUE]
  /\ orphans' \subseteq orphans
  /\ UNCHANGED missed

\* Some of the documents without a row may be gone.
LoseOrphans ==
  \E lost \in SUBSET orphans :
    /\ docs' = [p \in Paths |-> IF p \in lost THEN NoFile ELSE docs[p]]
    /\ orphans' = orphans \ lost

\* The calls without the lock go on, or end with the process.
CallersGoOnOrDie == missed' = missed \/ missed' = {}

\* The answer to the client, a failure, or the death of the process.
End ==
  /\ req # Idle
  /\ req' = Idle
  /\ LoseOrphans \/ (req.request.kind = "drop" /\ docs' = NoDocs /\ orphans' = {})
  /\ CallersGoOnOrDie

\* The process dies while it serves no request, or the recovery of a dead one goes on.
Pass ==
  /\ LoseOrphans
  /\ CallersGoOnOrDie
  /\ UNCHANGED req

\* A call without the lock does not find the file of a document: there is none, or a
\* request is at work.
Miss(p) ==
  /\ req # Idle \/ docs[p] = NoFile
  /\ missed' = missed \cup {p}
  /\ UNCHANGED <<docs, req, orphans>>

\* Such a call takes the row away, if there still is one.  The document itself stays.
Forget(p) ==
  /\ p \in missed
  /\ missed' = missed \ {p}
  /\ orphans' = orphans \/ (docs[p] # NoFile /\ orphans' = orphans \cup {p})
  /\ UNCHANGED <<docs, req>>

Next ==
  \/ \E r \in Requests : Begin(r)
  \/ \E p \in Paths : Miss(p) \/ Forget(p)
  \/ Effect \/ End \/ Pass

Spec == Init /\ [][Next]_vars
=============================================================================
