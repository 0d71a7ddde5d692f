----------------------------- MODULE Artifacts -----------------------------
(***************************************************************************)
(* Uploads of artifacts, by PUT /artifacts/:hash and inline in a publish   *)
(* request.  An upload looks for the row, checks the agent's quota, stores *)
(* the bytes through a temporary file that is named after the hash, and    *)
(* inserts the row; each is a step, and uploads of the same hash share     *)
(* the temporary file.                                                     *)
(*                                                                         *)
(* A file is an inode: the one an upload creates bears the upload's name.  *)
(* Rows are never deleted (delete_artifact has no caller).                 *)
(***************************************************************************)
EXTENDS Naturals, FiniteSets, FiniteSetsExt

CONSTANTS
    None,
    Upload,      \* the requests, each issued once
    Hash,
    Agent,
    By,          \* [Upload -> Agent]: the authenticated agent
    Named,       \* [Upload -> Hash]: the hash of the URL, or of an inline body
    Body,        \* [Upload -> Hash]: the hash of the bytes sent
    Inline,      \* uploads through process_inline_artifact
    AsTree,      \* uploads whose artifact type is "tree"; the others' is "blob"
    Manifest,    \* hashes of bodies that put_artifact accepts as a tree
    Size,        \* [Hash -> Nat]
    MaxBlob,     \* hub.max_artifact_blob_bytes, for PUT only
    PutQuota,    \* hub.max_artifact_storage_per_agent_bytes
    InlineQuota, \* the ten megabytes of process_inline_artifact
    MaxCrashes,  \* bound: process deaths
    MaxFaults    \* bound: calls to the disk or the database that fail

ASSUME ArtifactAssumption ==
    /\ None \notin Upload \cup Hash
    /\ IsFiniteSet(Hash)
    /\ By \in [Upload -> Agent]
    /\ Named \in [Upload -> Hash]
    /\ Body \in [Upload -> Hash]
    /\ Inline \subseteq Upload
    /\ \A u \in Inline : Named[u] = Body[u]
    /\ AsTree \subseteq Upload
    /\ Manifest \subseteq Hash
    /\ Size \in [Hash -> Nat]
    /\ MaxBlob \in Nat /\ PutQuota \in Nat /\ InlineQuota \in Nat
    /\ MaxCrashes \in Nat /\ MaxFaults \in Nat

VARIABLES
    row,      \* [Hash -> Upload or None]: the artifacts table, by inserter
    tmp,      \* [Hash -> Upload or None]: inode at <hash>.tmp
    file,     \* [Hash -> Upload or None]: inode at <hash>
    bytes,    \* [Upload -> Hash or None]: what an inode holds, None if cut short
    fd,       \* [Upload -> Upload or None]: the inode the request writes to
    at,       \* [Upload -> Step]: the await the request stands at
    parallel, \* history: agents that have had two uploads under way at once
    crashes,
    faults

diskVars == <<tmp, file, bytes>>
vars == <<row, diskVars, fd, at, parallel, crashes, faults>>

Running  == {"vet", "create", "write", "rename", "insert"}
Answered == {"created", "exists", "refused", "error"}
Step     == {"unsent", "gone"} \cup Running \cup Answered

UnderWay == {u \in Upload : at[u] \in Running}

Init ==
    /\ row = [h \in Hash |-> None]
    /\ tmp = [h \in Hash |-> None]
    /\ file = [h \in Hash |-> None]
    /\ bytes = [u \in Upload |-> None]
    /\ fd = [u \in Upload |-> None]
    /\ at = [u \in Upload |-> "unsent"]
    /\ parallel = {}
    /\ crashes = 0
    /\ faults = 0

Goto(u, s) == at' = [at EXCEPT ![u] = s]

\* SELECT hash FROM artifacts: what is there is not stored again, whatever the
\* body is.
Check(u) ==
    /\ at[u] = "unsent"
    /\ IF row[Named[u]] # None
         THEN Goto(u, "exists") /\ UNCHANGED parallel
         ELSE /\ Goto(u, "vet")
              /\ parallel' = parallel \cup ({By[u]} \cap {By[v] : v \in UnderWay})
    /\ UNCHANGED <<row, diskVars, fd, crashes, faults>>

\* SELECT SUM(size_bytes): the table as it is now.
Stored(g) ==
    MapThenSumSet(LAMBDA h : Size[h],
                  {h \in Hash : row[h] # None /\ By[row[h]] = g})

Quota(u) == IF u \in Inline THEN InlineQuota ELSE PutQuota

\* Mutant: the new body is not counted.
WithinQuotaBefore(u) == Stored(By[u]) <= Quota(u)

WithinQuota(u) == Stored(By[u]) + Size[Body[u]] <= Quota(u)

\* Mutant: the hash of the URL is believed.
AcceptableUnhashed(u) ==
    IF u \in AsTree THEN u \in Inline \/ Body[u] \in Manifest ELSE WithinQuota(u)

\* The hash of the body; for a blob the size limit and the quota; for a tree
\* its manifest, which an inline upload has had made for it.  A tree is held
\* to no quota.
Acceptable(u) ==
    /\ Body[u] = Named[u]
    /\ \/ /\ u \in AsTree
          /\ u \in Inline \/ Body[u] \in Manifest
       \/ /\ u \notin AsTree
          /\ u \in Inline \/ Size[Body[u]] <= MaxBlob
          /\ WithinQuota(u)

Vet(u) ==
    /\ at[u] = "vet"
    /\ Goto(u, IF Acceptable(u) THEN "create" ELSE "refused")
    /\ UNCHANGED <<row, diskVars, fd, parallel, crashes, faults>>

\* File::create(<hash>.tmp): a new inode, or the one another upload of the same
\* hash is writing, cut to nothing.
Create(u) ==
    LET h == Named[u]
        i == IF tmp[h] = None THEN u ELSE tmp[h]
    IN  /\ at[u] = "create"
        /\ tmp' = [tmp EXCEPT ![h] = i]
        /\ fd' = [fd EXCEPT ![u] = i]
        /\ bytes' = [bytes EXCEPT ![i] = None]
        /\ Goto(u, "write")
        /\ UNCHANGED <<row, file, parallel, crashes, faults>>

Wrote(u) ==
    /\ fd' = [fd EXCEPT ![u] = None]
    /\ Goto(u, "rename")
    /\ UNCHANGED <<row, tmp, file, parallel, crashes, faults>>

OpenElsewhere(i, u) == \E v \in Upload \ {u} : fd[v] = i

\* Mutant: nothing is written once the temporary name is gone.
WriteWhileNamed(u) ==
    LET i == fd[u]
    IN  /\ at[u] = "write"
        /\ \/ tmp[Named[u]] = i /\ bytes' = [bytes EXCEPT ![i] = Body[u]]
           \/ OpenElsewhere(i, u) /\ bytes' = [bytes EXCEPT ![i] = None]
           \/ tmp[Named[u]] # i /\ UNCHANGED bytes
        /\ Wrote(u)

\* write_all and sync_all, then the file is closed.  If the inode is open
\* elsewhere, it may have been cut to nothing while this request wrote: it is
\* whole when the last of them has written it.
Write(u) ==
    LET i == fd[u]
    IN  /\ at[u] = "write"
        /\ \/ bytes' = [bytes EXCEPT ![i] = Body[u]]
           \/ OpenElsewhere(i, u) /\ bytes' = [bytes EXCEPT ![i] = None]
        /\ Wrote(u)

\* rename(<hash>.tmp, <hash>): whatever inode bears the name; an error if
\* another upload has renamed it already.
Rename(u) ==
    LET h == Named[u]
    IN  /\ at[u] = "rename"
        /\ IF tmp[h] = None
             THEN Goto(u, "error") /\ UNCHANGED <<tmp, file>>
             ELSE /\ file' = [file EXCEPT ![h] = tmp[h]]
                  /\ tmp' = [tmp EXCEPT ![h] = None]
                  /\ Goto(u, "insert")
        /\ UNCHANGED <<row, bytes, fd, parallel, crashes, faults>>

\* Mutant: the second row of a hash replaces the first.
InsertOver(u) ==
    /\ at[u] = "insert"
    /\ row' = [row EXCEPT ![Named[u]] = u]
    /\ Goto(u, "created")
    /\ UNCHANGED <<diskVars, fd, parallel, crashes, faults>>

\* INSERT INTO artifacts: hash is the primary key.
Insert(u) ==
    /\ at[u] = "insert"
    /\ IF row[Named[u]] # None
         THEN Goto(u, "error") /\ UNCHANGED row
         ELSE /\ row' = [row EXCEPT ![Named[u]] = u]
              /\ Goto(u, "created")
    /\ UNCHANGED <<diskVars, fd, parallel, crashes, faults>>

\* A call to the disk or the database fails, without effect, and the request
\* is answered with an error.
Fault(u) ==
    /\ faults < MaxFaults
    /\ at[u] \in Running
    /\ faults' = faults + 1
    /\ fd' = [fd EXCEPT ![u] = None]
    /\ Goto(u, "error")
    /\ UNCHANGED <<row, diskVars, parallel, crashes>>

\* The process dies: requests under way get no answer, files stay.
Crash ==
    /\ crashes < MaxCrashes
    /\ UnderWay # {}
    /\ crashes' = crashes + 1
    /\ at' = [u \in Upload |-> IF u \in UnderWay THEN "gone" ELSE at[u]]
    /\ fd' = [u \in Upload |-> None]
    /\ UNCHANGED <<row, diskVars, parallel, faults>>

Proceed(u) == Vet(u) \/ Create(u) \/ Write(u) \/ Rename(u) \/ Insert(u)

Next ==
    \/ \E u \in Upload : Check(u) \/ Proceed(u) \/ Fault(u)
    \/ Crash

Spec == Init /\ [][Next]_vars

\* A handler once started runs to its answer unless the process dies.
FairSpec == Spec /\ \A u \in Upload : WF_vars(Proceed(u))

---------------------------------------------------------------------------
TypeOK ==
    /\ row \in [Hash -> Upload \cup {None}]
    /\ tmp \in [Hash -> Upload \cup {None}]
    /\ file \in [Hash -> Upload \cup {None}]
    /\ bytes \in [Upload -> Hash \cup {None}]
    /\ fd \in [Upload -> Upload \cup {None}]
    /\ \A u \in Upload : (fd[u] # None) = (at[u] = "write")
    /\ at \in [Upload -> Step]
    /\ parallel \subseteq Agent
    /\ crashes \in 0..MaxCrashes
    /\ faults \in 0..MaxFaults

Readable(h) == file[h] # None /\ bytes[file[h]] = h

\* A row has its file, and the file holds the bytes of its hash or was cut
\* short, whatever uploads interleave, die or fail (put_artifact's order:
\* hash, rename, INSERT; migration 002: "BLAKE3 hash of the stored content").
RowHasFile ==
    \A h \in Hash : row[h] # None =>
        file[h] # None /\ bytes[file[h]] \in {h, None}

\* The file of a row is cut short only while an upload that will write it
\* again is under way, or after a death or failure took such an upload.
RowWhole ==
    \A h \in Hash : row[h] # None =>
        \/ Readable(h)
        \/ \E u \in Upload : fd[u] # None /\ fd[u] = file[h]
        \/ crashes + faults > 0

\* Of the uploads of one hash at most one is answered "created", and it is the
\* one whose agent is charged (the primary key of artifacts).
OneCreated ==
    \A u \in Upload : at[u] = "created" => row[Named[u]] = u

BlobsStored(g) ==
    MapThenSumSet(LAMBDA h : Size[h],
        {h \in Hash : row[h] \in Upload \ AsTree /\ By[row[h]] = g})

\* Blobs get an agent over the larger of its quotas only if it has had uploads
\* under way at once: the sum is read well before the row is inserted.
OverQuotaOnlyInParallel ==
    \A g \in Agent :
        \/ BlobsStored(g) <= PutQuota
        \/ BlobsStored(g) <= InlineQuota
        \/ g \in parallel

\* An artifact that has its row can be read whole in the end, if nothing died
\* or failed, and stays so.
EventuallyReadable ==
    \A h \in Hash :
        (row[h] # None) ~> [](Readable(h) \/ crashes + faults > 0)

=============================================================================
