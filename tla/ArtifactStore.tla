--------------------------- MODULE ArtifactStore ---------------------------
(***************************************************************************)
(* How experiments/artifacts.py publishes a directory of evidence: a        *)
(* temporary directory beside the final one is filled file by file, the     *)
(* checksums last, and renamed into place.  A digest is the bytes it was    *)
(* taken of.  The temporary directory of a writer that died stays on disk   *)
(* under a hidden name nobody reads again; the model forgets it.            *)
(***************************************************************************)
EXTENDS FiniteSets

CONSTANTS Writers

VARIABLES
    dirs,      \* path -> (file -> content)
    writers    \* writing process -> [path, contents]

storeVars == <<dirs, writers>>

Checksums == "checksums.sha256"

\* Fault: the files are written where they will stay.
FinalPath(w, path) == path

Pending(w, path) == <<"pending", w>>

IsPending(path) == path[1] = "pending"
Final == {d \in DOMAIN dirs : ~ IsPending(d)}

Assign(f, x, v) == [y \in DOMAIN f \cup {x} |-> IF y = x THEN v ELSE f[y]]
Without(f, X) == [y \in DOMAIN f \ X |-> f[y]]
Target(w) == Pending(w, writers[w].path)

StoreInit ==
    /\ dirs = [d \in {} |-> {}]
    /\ writers = [w \in {} |-> {}]

\* The collision check of write_run_artifacts and write_lifecycle_artifact,
\* then mkdtemp.
StartWriting(w, path, contents) ==
    /\ w \notin DOMAIN writers
    /\ path \notin DOMAIN dirs
    /\ ~ IsPending(path)
    /\ Checksums \notin DOMAIN contents
    /\ writers' = Assign(writers, w, [path |-> path, contents |-> contents])
    /\ dirs' = Assign(dirs, Pending(w, path), [f \in {} |-> {}])

Unwritten(w) == DOMAIN writers[w].contents \ DOMAIN dirs[Target(w)]

WriteFile(w) ==
    /\ w \in DOMAIN writers
    /\ Checksums \notin DOMAIN dirs[Target(w)]
    /\ LET contents == writers[w].contents
           written == dirs[Target(w)]
       IN  dirs' = Assign(dirs, Target(w),
                          IF Unwritten(w) = {} THEN Assign(written, Checksums, contents)
                          ELSE LET file == CHOOSE f \in Unwritten(w) : TRUE
                               IN  Assign(written, file, contents[file]))
    /\ UNCHANGED writers

\* rename refuses a directory that is there by now.
Publish(w) ==
    /\ w \in DOMAIN writers
    /\ Checksums \in DOMAIN dirs[Target(w)]
    /\ writers[w].path \notin DOMAIN dirs \ {Target(w)}
    /\ dirs' = Assign(Without(dirs, {Target(w)}), writers[w].path, dirs[Target(w)])
    /\ writers' = Without(writers, {w})

\* A write or the rename fails, or the process dies.
Abandon(w) ==
    /\ w \in DOMAIN writers
    /\ dirs' = Without(dirs, {<<"pending", w>>})
    /\ writers' = Without(writers, {w})

------------------------------------------------------------------------------
IsWhole(files) ==
    /\ Checksums \in DOMAIN files
    /\ files[Checksums] = [f \in DOMAIN files \ {Checksums} |-> files[f]]

\* A directory under its final name is complete and its checksums are those of
\* its files, whatever process died or failed while writing it or another.
ArtifactsAreWhole == \A d \in Final : IsWhole(dirs[d])
=============================================================================
