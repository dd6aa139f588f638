------------------------------ MODULE Semantic ------------------------------
(***************************************************************************)
(* The semantic layer (raleighsl/core/semantic.c) with the flat semantic   *)
(* (semantics/flat/flat.c), the file system that loads it                  *)
(* (core/filesystem.c), the plugin table (core/plugins.c), and what they   *)
(* make of the objects in the object cache.                                *)
(*                                                                         *)
(* The names are the keys of the root, a sorted set that is written outside*)
(* transactions, is never balanced and so is a map (SSet).  A call and the *)
(* commit that follows it when it succeeds are one step: the scheduler     *)
(* lets nothing but lookups in between.  What a call that fails has queued *)
(* on the root stays there, for the commit of the next call.  A key is the *)
(* hash of its name; names have different hashes.                          *)
(***************************************************************************)
EXTENDS Naturals, SequencesExt

CONSTANTS
  Names, Labels,   \* Labels: the object plugins that can be registered
  NoOid,           \* no entry in the root
  MaxOids          \* bound: objects made

Layers == <<"format", "space", "semantic">>
Oids == 1 .. MaxOids   \* from RALEIGHSL_RESERVED_OIDS on

ASSUME SemanticAssumption == MaxOids \in Nat /\ NoOid \notin Oids

VARIABLES
  fsState,   \* of the file system: "new", "up", "down"
  loaded,    \* the layers whose init or load has run and unload has not
  plugs,     \* fs->plugins
  root,      \* the committed entries of semantic.root
  rootQueue, \* the writes that wait for a commit of the root
  objs,      \* of each id: "none" (not cached), "blank" (cached without a
             \* plugin), "failed" (its create failed), "open"
  used,      \* next_oid
  fsAnswer,  \* [call, errno]: of the last call
  crashed,   \* a plugin has been called through a null pointer
  fsBroken   \* history: a call has failed half way, or an object was evicted

svars == <<fsState, loaded, plugs, root, rootQueue, objs, used, fsAnswer, crashed,
           fsBroken>>

FsInit ==
  /\ fsState = "new"
  /\ loaded = {}
  /\ plugs = {}
  /\ root = [n \in Names |-> NoOid]
  /\ rootQueue = <<>>
  /\ objs = [o \in Oids |-> "none"]
  /\ used = 0
  /\ fsAnswer = [call |-> "none", errno |-> "NONE"]
  /\ crashed = FALSE
  /\ fsBroken = FALSE

Running == ~crashed

Answer(call, errno) == fsAnswer' = [call |-> call, errno |-> errno]

-----------------------------------------------------------------------------
(* The file system and its plugins.                                        *)

\* The layers whose init or load runs before that of l.
Before(l) ==
  {Layers[i] : i \in {i \in DOMAIN Layers : \E j \in DOMAIN Layers : i < j /\ Layers[j] = l}}

\* Fault: when the semantic fails, the format is left loaded.
UndoneSpace(l) == CASE l = "format"   -> {}
                    [] l = "space"    -> {"format"}
                    [] l = "semantic" -> {"space"}

\* The unload calls of raleighsl_create and raleighsl_open in the branch
\* where l fails.
Undone(l) == CASE l = "format"   -> {}
               [] l = "space"    -> {"format"}
               [] l = "semantic" -> {"space", "format"}

\* The layers are loaded in order up to the one that fails.
LoadedUpTo(fails) ==
  IF fails = "none" THEN ToSet(Layers) ELSE Before(fails) \ Undone(fails)

Start(call, fails) ==
  /\ Running
  /\ loaded' = LoadedUpTo(fails)
  /\ Answer(call, IF fails = "none" THEN "NONE" ELSE "NO_MEMORY")
  /\ UNCHANGED <<plugs, root, rootQueue, objs, used, crashed, fsBroken>>

FsCreate(fails) ==
  /\ fsState = "new"
  /\ fsState' = IF fails = "none" THEN "up" ELSE "new"
  /\ Start("create_fs", fails)

\* The root is there only when this process has made it: nothing is read
\* from a device.
FsOpen(fails) ==
  /\ fsState = "down" \/ (fsState = "new" /\ fails # "none")
  /\ fsState' = IF fails = "none" THEN "up" ELSE fsState
  /\ Start("open_fs", fails)

\* raleighsl_close: sync does nothing.
Close ==
  /\ Running
  /\ fsState = "up"
  /\ fsState' = "down"
  /\ loaded' = {}
  /\ Answer("close", "NONE")
  /\ UNCHANGED <<plugs, root, rootQueue, objs, used, crashed, fsBroken>>

\* raleighsl_plug_object: a plugin that is there is put again; when the table
\* has no place for it and cannot grow, it is left out.
Plug(l, fails) ==
  /\ Running
  /\ IF fails = "none"
     THEN plugs' = plugs \cup {l} /\ Answer("plug", "NONE")
     ELSE l \notin plugs /\ plugs' = plugs /\ Answer("plug", "NO_MEMORY")
  /\ UNCHANGED <<fsState, loaded, root, rootQueue, objs, used, crashed, fsBroken>>

\* raleighsl_unplug_object.  z_hash_map_remove is to answer that a plugin is
\* not there (PLUGIN_NOT_LOADED), but __open_hash_map_pop clears the entry
\* that the lookup has not found, through a null pointer.
Unplug(l) ==
  /\ Running
  /\ IF l \in plugs
     THEN plugs' = plugs \ {l} /\ Answer("unplug", "NONE") /\ UNCHANGED crashed
     ELSE crashed' = TRUE /\ UNCHANGED <<plugs, fsAnswer>>
  /\ UNCHANGED <<fsState, loaded, root, rootQueue, objs, used, fsBroken>>

-----------------------------------------------------------------------------
(* The flat semantic.                                                      *)

Lookup(n) == root[n]

\* The commit of the root: the queued writes, in order, so that the last one
\* of a name is what remains.
Committed(q) ==
  [n \in Names |->
     LET writes == {i \in DOMAIN q : q[i][1] = n}
     IN  IF writes = {} THEN root[n]
         ELSE q[CHOOSE i \in writes : \A j \in writes : j <= i][2]]

\* A call that succeeds is followed by the commit, with es on the queue.
Succeed(call, es) ==
  /\ root' = Committed(rootQueue \o es)
  /\ rootQueue' = <<>>
  /\ Answer(call, "NONE")

\* One that fails leaves what it has queued.
FailWith(call, errno, es) ==
  /\ rootQueue' = rootQueue \o es
  /\ Answer(call, errno)
  /\ UNCHANGED root

\* raleighsl_sset_insert and raleighsl_sset_remove on the root.
Addition(n, o) == <<n, o>>
Removal(n) == <<n, NoOid>>

\* raleighsl_object_create with a create of the plugin that may fail.
Made(o, fails) ==
  [objs EXCEPT ![o] = IF fails = "object" THEN "failed" ELSE "open"]

Ready == Running /\ fsState = "up"
Bounded == Len(rootQueue) < 2   \* bound: calls that fail half way

\* Fault: the object is made after the name is committed, and may not be.
CreateLate(n, l, fails) ==
  /\ Ready /\ Bounded
  /\ l \in plugs
  /\ Lookup(n) = NoOid
  /\ used < MaxOids
  /\ used' = used + 1
  /\ Succeed("create", <<<<n, used + 1>>>>)
  /\ UNCHANGED <<objs, fsState, loaded, plugs, crashed, fsBroken>>

\* raleighsl_semantic_create of a name that has no object.  The insert may
\* run out of memory; so may the object cache and the create of the object,
\* whose name then stays on the queue and whose reference in the cache, when
\* it has one, is not released.
Create(n, l, fails) ==
  LET oid == used + 1
  IN  /\ Ready /\ Bounded
      /\ l \in plugs
      /\ Lookup(n) = NoOid
      /\ used < MaxOids
      /\ used' = oid
      /\ \/ /\ fails = "insert"
            /\ FailWith("create", "NO_MEMORY", <<>>)
            /\ UNCHANGED <<objs, fsBroken>>
         \/ /\ fails = "object"
            /\ FailWith("create", "NO_MEMORY", <<Addition(n, oid)>>)
            /\ objs' = Made(oid, fails)
            /\ fsBroken' = TRUE
         \/ /\ fails = "cache"
            /\ objs[oid] = "none"
            /\ FailWith("create", "NO_MEMORY", <<Addition(n, oid)>>)
            /\ UNCHANGED objs
            /\ fsBroken' = TRUE
         \/ /\ fails = "none"
            /\ Succeed("create", <<Addition(n, oid)>>)
            /\ objs' = Made(oid, fails)
            /\ UNCHANGED fsBroken
      /\ UNCHANGED <<fsState, loaded, plugs, crashed>>

\* raleighsl_semantic_create and raleighsl_semantic_rename to a name that has
\* an object: the errno of the lookup that found it, NONE, is answered, and
\* the commit follows.
Present(call, n) ==
  /\ Ready
  /\ Lookup(n) # NoOid
  /\ Succeed(call, <<>>)
  /\ UNCHANGED <<fsState, loaded, plugs, objs, used, crashed, fsBroken>>

\* raleighsl_obj_cache_get.
Cached(o) == IF objs[o] = "none" THEN [objs EXCEPT ![o] = "blank"] ELSE objs

\* raleighsl_object_open: no plugin can open an object.
Opened(s) == CASE s = "open"   -> "NONE"
               [] s = "failed" -> "NOT_IMPLEMENTED"
               [] s = "blank"  -> "PLUGIN_NOT_LOADED"

\* raleighsl_semantic_open; an object that is not cached may find no memory.
OpenName(n, fails) ==
  LET o == Lookup(n)
      noMemory == fails = "cache" /\ o # NoOid /\ objs[o] = "none"
  IN  /\ Ready
      /\ fails = "cache" => noMemory
      /\ objs' = IF o = NoOid \/ noMemory THEN objs ELSE Cached(o)
      /\ Answer("open", IF o = NoOid THEN "OBJECT_NOT_FOUND"
                        ELSE IF noMemory THEN "NO_MEMORY" ELSE Opened(objs'[o]))
      /\ UNCHANGED <<fsState, loaded, plugs, root, rootQueue, used, crashed, fsBroken>>

\* raleighsl_semantic_unlink.  The removal is queued before the object is
\* looked for: one that is not in memory any more may find no memory, and the
\* removal stays on the queue.  No object has an unlink of its own, and one
\* that is not in memory any more has no plugin to ask.
Unlink(n, fails) ==
  LET o == Lookup(n)
  IN  /\ Ready
      /\ o # NoOid
      /\ \/ /\ fails = "cache" /\ Bounded
            /\ objs[o] = "none"
            /\ FailWith("unlink", "NO_MEMORY", <<Removal(n)>>)
            /\ fsBroken' = TRUE
            /\ UNCHANGED <<objs, crashed>>
         \/ /\ fails = "none"
            /\ objs' = Cached(o)
            /\ IF objs'[o] = "blank"
               THEN /\ crashed' = TRUE
                    /\ UNCHANGED <<root, rootQueue, fsAnswer>>
               ELSE /\ Succeed("unlink", <<Removal(n)>>)
                    /\ UNCHANGED crashed
            /\ UNCHANGED fsBroken
      /\ UNCHANGED <<fsState, loaded, plugs, used>>

\* Fault: the old name is kept.
RenameKeeps(m, n, fails) ==
  /\ Ready /\ Bounded
  /\ Lookup(n) = NoOid /\ Lookup(m) # NoOid
  /\ Succeed("rename", <<<<n, Lookup(m)>>>>)
  /\ UNCHANGED <<fsState, loaded, plugs, objs, used, crashed, fsBroken>>

\* raleighsl_semantic_rename to a name without an object.
Rename(m, n, fails) ==
  /\ Ready /\ Bounded
  /\ Lookup(n) = NoOid
  /\ Lookup(m) # NoOid
  /\ \/ /\ fails = "none"
        /\ Succeed("rename", <<Removal(m), Addition(n, Lookup(m))>>)
        /\ UNCHANGED fsBroken
     \/ /\ fails = "insert"
        /\ FailWith("rename", "NO_MEMORY", <<Removal(m)>>)
        /\ fsBroken' = TRUE
  /\ UNCHANGED <<fsState, loaded, plugs, objs, used, crashed>>

\* The name that is to be unlinked or renamed has no object, the label of the
\* new object no plugin.
NotFound(call, n) ==
  /\ Ready
  /\ Lookup(n) = NoOid
  /\ FailWith(call, "OBJECT_NOT_FOUND", <<>>)
  /\ UNCHANGED <<fsState, loaded, plugs, objs, used, crashed, fsBroken>>

\* __semantic_unlink finds no memory for the removal: nothing is queued.
NoMemory(call, n) ==
  /\ Ready
  /\ Lookup(n) # NoOid
  /\ FailWith(call, "NO_MEMORY", <<>>)
  /\ UNCHANGED <<fsState, loaded, plugs, objs, used, crashed, fsBroken>>

NoPlugin(l) ==
  /\ Ready
  /\ l \notin plugs
  /\ FailWith("create", "PLUGIN_NOT_LOADED", <<>>)
  /\ UNCHANGED <<fsState, loaded, plugs, objs, used, crashed, fsBroken>>

-----------------------------------------------------------------------------
(* The object cache.                                                       *)

\* raleighsl_exec_read, raleighsl_exec_write with any id: an object that is
\* not cached is, and has no plugin; the task does not look whether there was
\* memory for it.
Touch(o) ==
  /\ Ready
  /\ objs[o] = "none"
  /\ \/ objs' = Cached(o) /\ Answer("exec", "PLUGIN_NOT_LOADED") /\ UNCHANGED crashed
     \/ crashed' = TRUE /\ UNCHANGED <<objs, fsAnswer>>
  /\ UNCHANGED <<fsState, loaded, plugs, root, rootQueue, used, fsBroken>>

\* __obj_cache_entry_free: an object that nobody refers to is synced, closed
\* and freed.  One without a plugin has nothing to be synced with.
Evict(o) ==
  /\ Ready
  /\ objs[o] \in {"open", "blank"}
  /\ IF objs[o] = "blank"
     THEN crashed' = TRUE /\ UNCHANGED objs
     ELSE objs' = [objs EXCEPT ![o] = "none"] /\ UNCHANGED crashed
  /\ fsBroken' = TRUE
  /\ UNCHANGED <<fsState, loaded, plugs, root, rootQueue, used, fsAnswer>>

FsNext ==
  \/ \E fails \in {"none"} \cup ToSet(Layers) :
       FsCreate(fails) \/ FsOpen(fails)
  \/ Close
  \/ \E l \in Labels :
       \/ \E fails \in {"none", "memory"} : Plug(l, fails)
       \/ Unplug(l) \/ NoPlugin(l)
  \/ \E n \in Names :
       \/ \E l \in Labels, fails \in {"none", "insert", "object", "cache"} :
            Create(n, l, fails)
       \/ \E fails \in {"none", "cache"} : OpenName(n, fails) \/ Unlink(n, fails)
       \/ Present("create", n) \/ NotFound("unlink", n) \/ NoMemory("unlink", n)
       \/ \E m \in Names :
            \/ \E fails \in {"none", "insert"} : Rename(m, n, fails)
            \/ Lookup(n) = NoOid /\ (NotFound("rename", m) \/ NoMemory("rename", m))
            \/ Present("rename", n)
  \/ \E o \in Oids : Touch(o) \/ Evict(o)

FsSpec == FsInit /\ [][FsNext]_svars

-----------------------------------------------------------------------------
\* The types of the state.
FsTypeOK ==
  /\ fsState \in {"new", "down", "up"}
  /\ loaded \subseteq ToSet(Layers)
  /\ plugs \subseteq Labels
  /\ root \in [Names -> Oids \cup {NoOid}]
  /\ rootQueue \in Seq(Names \X (Oids \cup {NoOid}))
  /\ objs \in [Oids -> {"none", "blank", "failed", "open"}]
  /\ used \in 0 .. MaxOids
  /\ crashed \in BOOLEAN /\ fsBroken \in BOOLEAN

\* The layers are loaded all or none, whichever of them fails to load: what
\* the branch of the failure unloads is what had been loaded before it
\* (raleighsl_create, raleighsl_open, raleighsl_close).
AllOrNone == loaded = IF fsState = "up" THEN ToSet(Layers) ELSE {}

\* Until a call fails half way (a create, a rename or an unlink that leaves a
\* write on the queue) or an object is evicted, every name leads to an
\* object that has been made, no two names to one, and nothing waits for a
\* commit (raleighsl_semantic_create, raleighsl_semantic_rename).
OneNameEach ==
  ~fsBroken =>
    /\ rootQueue = <<>>
    /\ \A n \in Names : root[n] # NoOid => objs[root[n]] = "open"
    /\ \A m, n \in Names : root[m] = root[n] => m = n \/ root[m] = NoOid

\* The file system has all its layers or none, and until then its names lead
\* to objects that can be opened (raleighsl_create, raleighsl_open,
\* raleighsl_semantic_create, raleighsl_semantic_rename).
NamesLead == AllOrNone /\ OneNameEach

Names0 == INSTANCE Namespace WITH leads <- root

\* Until then the semantic layer is a namespace: an object gets one name when
\* it is made, keeps it until it is renamed or unlinked, and never returns.
RefinesNamespace ==
  Names0!Init /\ [][UNCHANGED svars \/ Names0!Next \/ fsBroken']_<<root, used>>
=============================================================================
