------------------------------- MODULE Loader -------------------------------
(***************************************************************************)
(* Reading a workflow file, what it refers to and the workflows it imports *)
(* (loader/loader.go, imports.go, assets.go, safepath.go) while other      *)
(* processes may change the directory.                                     *)
(*                                                                         *)
(* A path is a sequence of names; a declared one also has a spelling       *)
(* ("plain", "empty", "absolute", "backslash", "control") and may hold "." *)
(* and "..".  A file has a size and a document: the workflow it holds, or  *)
(* NoDoc.  Maps are read in any order, imports in the order of their ids.  *)
(***************************************************************************)
EXTENDS Naturals, Sequences, SequencesExt, FiniteSets, FiniteSetsExt

CONSTANTS Trees,        \* the directories a load may start from
          Changes,      \* what others may do to one: sets of [path, entry]
          MaxChanges,   \* bound: changes during one load
          Home,         \* the directory of the root workflow
          RootFile,     \* its name
          maxImportDepth, MaxAssetFileBytes, MaxAssetTotalBytes, MaxAssetFiles

VARIABLES disk,     \* path -> entry
          ld,       \* the load: its frames, innermost last, and its results
          opened,   \* history: every read, with its root and the real path
          changes

loaderVars == <<disk, ld, opened, changes>>

NoDoc == [containers |-> <<>>, assets |-> <<>>, imports |-> <<>>, ok |-> FALSE]
FileOf(size, doc) == [kind |-> "file", size |-> size, doc |-> doc, to |-> <<>>]
DirEntry == [kind |-> "dir", size |-> 0, doc |-> NoDoc, to |-> <<>>]
LinkTo(path) == [kind |-> "link", size |-> 0, doc |-> NoDoc, to |-> path]
NoEntry == [kind |-> "none", size |-> 0, doc |-> NoDoc, to |-> <<>>]
Lstat(path) == IF path \in DOMAIN disk THEN disk[path] ELSE NoEntry
(***************************************************************************)
(* os.Root: links inside the root are followed, what leaves it is refused. *)
(***************************************************************************)
NotFound == [ok |-> FALSE, real |-> <<>>, linked |-> FALSE]
RECURSIVE Resolve(_, _, _, _)
Resolve(root, at, rest, links) ==
  IF rest = <<>> THEN [ok |-> Lstat(at).kind # "none", real |-> at, linked |-> links > 0]
  ELSE LET next == Append(at, Head(rest))
       IN  CASE Lstat(next).kind = "none" -> NotFound
             [] Lstat(next).kind \in {"file", "dir"} -> Resolve(root, next, Tail(rest), links)
             [] Lstat(next).kind = "link" ->
                  IF links < 3 /\ IsPrefix(root, Lstat(next).to) THEN Resolve(root, Lstat(next).to, Tail(rest), links + 1) ELSE NotFound
OpenIn(root, rel) == Resolve(root, root, rel, 0)
\* Root.Lstat follows all components but the last.
LstatIn(root, rel) == IF rel = <<>> THEN Lstat(root)
                      ELSE LET dir == OpenIn(root, Front(rel)) IN IF dir.ok THEN Lstat(Append(dir.real, Last(rel))) ELSE NoEntry
(***************************************************************************)
(* Declared paths.                                                         *)
(***************************************************************************)
\* path.Clean: "." is dropped, ".." takes back a name or stays in front.
CleanPath(parts) ==
  FoldLeft(LAMBDA done, part : IF part = "." THEN done
                               ELSE IF part = ".." /\ done # <<>> /\ Last(done) # ".." THEN Front(done)
                               ELSE Append(done, part), <<>>, parts)
WorkflowNames == {"m.awf.yaml", "n.awf.yaml"}
safeRootRelPath(declared, allowDot, suffix) ==
  LET rel == CleanPath(declared.parts)
      fine == /\ declared.spelling = "plain"
              /\ rel = <<>> => allowDot
              /\ rel # <<>> => Head(rel) # ".."
              /\ suffix => rel # <<>> /\ Last(rel) \in WorkflowNames
  IN  [ok |-> fine, rel |-> rel]
composeRelPath(declared) == safeRootRelPath(declared, FALSE, FALSE)
assetRelPath(declared) == safeRootRelPath(declared, TRUE, FALSE)
importRelPath(declared) == safeRootRelPath(declared, FALSE, TRUE)
validImportID(id) == id \notin {"", "a.b", "workflow"}
childModuleID(parent, id) == Append(parent, id)
LastComponent(root, rel) == IF rel = <<>> THEN "file" ELSE LstatIn(root, rel).kind
\* The first component that is a link or is not there, or else "file".
rejectSymlinkComponents(root, rel) ==
  LET kind(i) == LstatIn(root, SubSeq(rel, 1, i)).kind
      bad == {i \in DOMAIN rel : kind(i) \in {"none", "link"}}
  IN  IF bad = {} THEN "file" ELSE kind(Min(bad))
Blocked(root, rel) == rejectSymlinkComponents(root, rel) \in {"none", "link"}
(***************************************************************************)
(* The load.                                                               *)
(***************************************************************************)
NoModule == [path |-> <<>>, doc |-> NoDoc, compose |-> <<>>, named |-> <<>>, assets |-> <<>>]
loadFrame(root, file, abs, id) ==
  [root |-> root, file |-> file, abs |-> abs, id |-> id, stage |-> "read", module |-> NoModule, todo |-> {}, at |-> <<"", <<>>>>,
   walk |-> {}, files |-> {}, real |-> <<>>, tracker |-> [bytes |-> 0, files |-> 0], next |-> 1]
LoaderInit ==
  /\ disk \in Trees /\ opened = {} /\ changes = 0
  /\ ld = [stack |-> <<loadFrame(Home, RootFile, Append(Home, RootFile), <<>>)>>, modules |-> <<>>, edges |-> {}, state |-> "loading", code |-> ""]

Top == Last(ld.stack)
InStage(stage) == ld.state = "loading" /\ Top.stage = stage
Become(frame) == ld' = [ld EXCEPT !.stack = Append(Front(ld.stack), frame)]
LoadError(code) == ld' = [ld EXCEPT !.state = "failed", !.code = code]
Noted(r, size) == opened' = opened \cup {[root |-> Top.root, real |-> r.real, linked |-> r.linked, size |-> size]}
Keep == UNCHANGED <<disk, changes>>
WithEntry(f, k, v) == [x \in DOMAIN f \cup {k} |-> IF x = k THEN v ELSE f[x]]

\* The depth and the cycle are checked before the file is touched.
ReadWorkflow ==
  /\ InStage("read") /\ Keep
  /\ LET r == OpenIn(Top.root, <<Top.file>>)
         ancestors == {ld.stack[i].abs : i \in 1..(Len(ld.stack) - 1)}
     IN  IF Len(Top.id) > maxImportDepth THEN LoadError("AWF_IMPORT_DEPTH") /\ UNCHANGED opened
         ELSE IF Top.abs \in ancestors THEN LoadError("AWF_IMPORT_CYCLE") /\ UNCHANGED opened
         ELSE IF ~r.ok \/ Lstat(r.real).kind # "file" THEN LoadError("AWF_IMPORT_READ") /\ UNCHANGED opened
         ELSE /\ Noted(r, 0)
              /\ IF ~Lstat(r.real).doc.ok THEN LoadError("AWF_IMPORT_DECODE")
                 ELSE Become([Top EXCEPT !.stage = "compose", !.todo = DOMAIN Lstat(r.real).doc.containers,
                                         !.module = [NoModule EXCEPT !.path = Top.abs, !.doc = Lstat(r.real).doc]])
\* A path two containers share is read once; each is renamed to its clean form.
CheckCompose(name) ==
  /\ InStage("compose") /\ name \in Top.todo /\ Keep /\ UNCHANGED opened
  /\ LET p == composeRelPath(Top.module.doc.containers[name])
     IN  IF p.ok /\ p.rel \in DOMAIN Top.module.compose
         THEN Become([Top EXCEPT !.todo = @ \ {name}, !.module = [Top.module EXCEPT !.named = WithEntry(@, name, p.rel)]])
         ELSE IF ~p.ok \/ Blocked(Top.root, p.rel) THEN LoadError("compose")
         ELSE Become([Top EXCEPT !.stage = "composeOpen", !.at = <<name, p.rel>>])
loadComposeFile ==
  /\ InStage("composeOpen") /\ Keep
  /\ LET r == OpenIn(Top.root, Top.at[2])
     IN  IF ~r.ok \/ Lstat(r.real).kind # "file" THEN LoadError("compose") /\ UNCHANGED opened
         ELSE /\ Noted(r, 0)
              /\ Become([Top EXCEPT !.stage = "compose", !.todo = @ \ {Top.at[1]},
                                    !.module = [Top.module EXCEPT !.named = WithEntry(@, Top.at[1], Top.at[2]), !.compose = WithEntry(@, Top.at[2], Lstat(r.real))]])
ComposeDone == /\ InStage("compose") /\ Top.todo = {} /\ Keep /\ UNCHANGED opened
               /\ Become([Top EXCEPT !.stage = "assets", !.todo = DOMAIN Top.module.doc.assets])
\* One limit of bytes and files holds for all the assets of a module.
CheckAsset(id) ==
  /\ InStage("assets") /\ id \in Top.todo /\ Keep /\ UNCHANGED opened
  /\ LET p == assetRelPath(Top.module.doc.assets[id])
     IN  IF ~p.ok \/ Blocked(Top.root, p.rel) THEN LoadError("asset")
         ELSE Become([Top EXCEPT !.stage = "walk", !.at = <<id, p.rel>>, !.files = {}, !.walk = {p.rel}])
Listing(path) == {Last(p) : p \in {q \in DOMAIN disk : Len(q) = Len(path) + 1 /\ IsPrefix(path, q) /\ disk[q].kind # "none"}}
\* The walk has one fixed order; a directory is listed when the walk comes to
\* it, and a link is refused.
loadAssetDir ==
  /\ InStage("walk") /\ Top.walk # {} /\ Keep /\ UNCHANGED opened
  /\ LET rel == CHOOSE r \in Top.walk : TRUE
         e == LstatIn(Top.root, rel)
     IN  CASE e.kind = "dir" -> Become([Top EXCEPT !.walk = (@ \ {rel}) \cup {Append(rel, name) : name \in Listing(Top.root \o rel)}])
           [] e.kind = "file" /\ e.size <= MaxAssetFileBytes -> Become([Top EXCEPT !.stage = "assetOpen", !.walk = @ \ {rel}, !.at = <<Top.at[1], rel>>])
           [] e.kind \in {"none", "link"} \/ e.size > MaxAssetFileBytes -> LoadError("asset")
assetLimitTracker(t, size) == [ok |-> t.files + 1 <= MaxAssetFiles /\ t.bytes + size <= MaxAssetTotalBytes,
                               next |-> [bytes |-> t.bytes + size, files |-> t.files + 1]]
\* The opened file is measured again, and counted by that size.
OpenAssetFile ==
  /\ InStage("assetOpen") /\ Keep /\ UNCHANGED opened
  /\ LET r == OpenIn(Top.root, Top.at[2])
         size == Lstat(r.real).size
         t == assetLimitTracker(Top.tracker, size)
     IN  IF ~r.ok \/ Lstat(r.real).kind # "file" \/ size > MaxAssetFileBytes \/ ~t.ok THEN LoadError("asset")
         ELSE Become([Top EXCEPT !.stage = "assetRead", !.real = <<r.real, r.linked>>, !.tracker = t.next])
\* It may have grown since, but not beyond the limit of one file.  A name that
\* became a link meanwhile leaves the open file as it was.
readAssetFile ==
  /\ InStage("assetRead") /\ Keep
  /\ LET e == Lstat(Top.real[1])
         got == IF e.kind = "file" THEN e ELSE FileOf(1, NoDoc)
     IN  IF got.size > MaxAssetFileBytes THEN LoadError("asset") /\ UNCHANGED opened
         ELSE /\ Noted([real |-> Top.real[1], linked |-> Top.real[2]], got.size)
              /\ Become([Top EXCEPT !.stage = "walk", !.files = @ \cup {<<Top.at[2], got>>}])
loadAsset ==
  /\ InStage("walk") /\ Top.walk = {} /\ Keep /\ UNCHANGED opened
  /\ IF Top.files = {} THEN LoadError("asset")
     ELSE Become([Top EXCEPT !.stage = "assets", !.todo = @ \ {Top.at[1]}, !.module = [Top.module EXCEPT !.assets = WithEntry(@, Top.at[1], Top.files)]])
AssetsDone ==
  /\ InStage("assets") /\ Top.todo = {} /\ Keep /\ UNCHANGED opened
  /\ ld' = [ld EXCEPT !.stack = Append(Front(ld.stack), [Top EXCEPT !.stage = "imports"]), !.modules = WithEntry(@, Top.id, Top.module)]

Import == Top.module.doc.imports[Top.next]
ImportsLeft == Top.next <= Len(Top.module.doc.imports)
CheckImport ==
  /\ InStage("imports") /\ ImportsLeft /\ Keep /\ UNCHANGED opened
  /\ LET p == importRelPath(Import.path)
     IN  IF ~validImportID(Import.id) THEN LoadError("AWF_IMPORT_ID_INVALID")
         ELSE IF ~p.ok THEN LoadError("AWF_IMPORT_PATH")
         ELSE IF Blocked(Top.root, p.rel)
              THEN LoadError(IF rejectSymlinkComponents(Top.root, p.rel) = "link" THEN "AWF_IMPORT_SYMLINK" ELSE "AWF_IMPORT_READ")
         ELSE Become([Top EXCEPT !.stage = "importOpen", !.at = <<Import.id, p.rel>>])
\* The import is read through a root of its own, the directory it stands in.
OpenImport ==
  /\ InStage("importOpen") /\ Keep /\ UNCHANGED opened
  /\ LET rel == Top.at[2]
         r == OpenIn(Top.root, Front(rel))
         id == childModuleID(Top.id, Top.at[1])
         parent == [Top EXCEPT !.stage = "imports", !.next = @ + 1]
     IN  IF ~r.ok \/ Lstat(r.real).kind # "dir" THEN LoadError("AWF_IMPORT_READ")
         ELSE ld' = [ld EXCEPT !.stack = Append(Front(ld.stack), parent) \o <<loadFrame(r.real, Last(rel), Front(Top.abs) \o rel, id)>>,
                               !.edges = @ \cup {<<Top.id, Top.at[1], rel, id>>}]
loadModuleReturns ==
  /\ InStage("imports") /\ ~ImportsLeft /\ Keep /\ UNCHANGED opened
  /\ ld' = IF Len(ld.stack) = 1 THEN [ld EXCEPT !.state = "loaded"] ELSE [ld EXCEPT !.stack = Front(@)]
\* Another process: a file is replaced by a link, or grows, or is rewritten.
ChangeDisk == /\ ld.state = "loading" /\ changes < MaxChanges /\ changes' = changes + 1
              /\ \E c \in Changes : c.path \in DOMAIN disk /\ disk' = [disk EXCEPT ![c.path] = c.entry]
              /\ UNCHANGED <<ld, opened>>
LoaderNext == \/ ReadWorkflow \/ loadComposeFile \/ ComposeDone \/ loadAssetDir \/ OpenAssetFile \/ readAssetFile \/ loadAsset \/ AssetsDone
              \/ CheckImport \/ OpenImport \/ loadModuleReturns \/ ChangeDisk
              \/ \E x \in Top.todo : CheckCompose(x) \/ CheckAsset(x)
-----------------------------------------------------------------------------
\* Whatever others do, nothing outside the directory of the root workflow, or
\* outside the directory of the importing module, is read; and unless they
\* interfere no link is followed.
ReadsConfined == \A o \in opened : IsPrefix(Home, o.root) /\ IsPrefix(o.root, o.real) /\ (changes = 0 => ~o.linked)
\* The modules are the tree of the imports their files declare: no file is its
\* own ancestor, and the depth is bounded.
ImportTree ==
  ld.state = "loaded" =>
    /\ DOMAIN ld.modules = {<<>>} \cup {e[4] : e \in ld.edges}
    /\ \A id \in DOMAIN ld.modules :
         /\ Len(id) <= maxImportDepth
         /\ {<<e[2], e[3]>> : e \in {d \in ld.edges : d[1] = id}}
              = {<<i.id, CleanPath(i.path.parts)>> : i \in ToSet(ld.modules[id].doc.imports)}
         /\ \A n \in 0..(Len(id) - 1) : ld.modules[SubSeq(id, 1, n)].path # ld.modules[id].path
\* A loaded module holds what it declares: every container's file under the
\* path it now names, every asset with at least one file; no file beyond its
\* limit, no more files than the limit, and no more bytes unless a file grew.
\* Undisturbed, an asset is exactly the files the directory holds.
SnapshotComplete ==
  \A id \in DOMAIN ld.modules :
    LET mod == ld.modules[id]
        own == UNION {{<<a, f>> : f \in mod.assets[a]} : a \in DOMAIN mod.assets}
        dir == Front(mod.path)
    IN  /\ DOMAIN mod.named = DOMAIN mod.doc.containers
        /\ \A c \in DOMAIN mod.named : mod.named[c] \in DOMAIN mod.compose /\ mod.named[c] = CleanPath(mod.doc.containers[c].parts)
        /\ DOMAIN mod.assets = DOMAIN mod.doc.assets
        /\ \A x \in own : x[2][2].size <= MaxAssetFileBytes
        /\ Cardinality(own) <= MaxAssetFiles
        /\ changes = 0 =>
             /\ FoldSet(LAMBDA x, n : n + x[2][2].size, 0, own) <= MaxAssetTotalBytes
             /\ \A a \in DOMAIN mod.assets :
                  LET base == dir \o CleanPath(mod.doc.assets[a].parts)
                  IN  {f[1] : f \in mod.assets[a]} = {SubSeq(p, Len(dir) + 1, Len(p)) : p \in {q \in DOMAIN disk : IsPrefix(base, q) /\ disk[q].kind = "file"}}
\* Whatever the directory does meanwhile: the loader opens only files inside it,
\* ends with a tree of imports without cycle, and a loaded workflow has every
\* file of its assets within the limits.
LoadSafe == ReadsConfined /\ ImportTree /\ SnapshotComplete
=============================================================================
