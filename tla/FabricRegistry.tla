--------------------------- MODULE FabricRegistry ---------------------------
(***************************************************************************)
(* The registry of definitions (CSFabricRegistry.m), pinned to a manifest.  *)
(*                                                                         *)
(* A cap names media defs and dims, a media def names dims.  A definition   *)
(* that is not in memory is fetched, with what it names, by each caller for *)
(* itself: callers meet only at the caches, each read and each write of     *)
(* which holds the lock alone.  What was fetched is kept on disk, and a     *)
(* later start, under another manifest perhaps, reads it back.              *)
(*                                                                         *)
(* The service is external: it serves any body for a definition, of which   *)
(* the code checks neither name nor version, and one body for ever for each *)
(* version of a dim, which the code checks.  The pinned version of what the *)
(* manifest does not list is 0.  Manifest 0 (one unversioned release), the  *)
(* aliases, which are never fetched, and the index of extensions, which     *)
(* follows the media defs, are left out.                                    *)
(***************************************************************************)
EXTENDS Naturals, FiniteSets

CONSTANTS
  Caps, Medias, Dims, Values,
  Versions,  \* of which 0 is none
  Fetches    \* the definitions being fetched at a time

VARIABLES
  declared,  \* the values a version of a dim declares
  manifest,  \* the pinned version of each name
  defs,      \* cachedCaps and cachedSpecs
  dims,      \* the version held of each dim (cachedDims)
  files,     \* the definitions on disk, by name and version
  dimFiles,  \* the versions of dims on disk
  fetch      \* the calls under way

vars == <<declared, manifest, defs, dims, files, dimFiles, fetch>>

Pins == Versions \cup {0}
Refs == Dims \X Values
Names == Caps \cup Medias
Bodies == [version : Pins, needs : SUBSET Medias,
           refs : {refs \in SUBSET Refs :
                     \A a, b \in refs : a[1] = b[1] => a = b}]  \* CSCheckDimRefs
Plain == [version |-> 0, needs |-> {}, refs |-> {}]
Manifests == [Names \cup Dims -> Pins]

Put(table, key, value) ==
  [k \in DOMAIN table \cup {key} |-> IF k = key THEN value ELSE table[k]]

\* A fetch started on its own has itself as its parent.
Fetching(name, parent) ==
  [stage |-> "body", name |-> name, parent |-> parent, failed |-> FALSE,
   body |-> Plain, look |-> {}, left |-> {}, at |-> {}]
At(f, stage) == f \in DOMAIN fetch /\ fetch[f].stage = stage

Resolves(refs, held) ==
  \A ref \in refs : /\ held[ref[1]] # 0
                    /\ ref[2] \in declared[<<ref[1], held[ref[1]]>>]

-----------------------------------------------------------------------------
(* A start: everything on disk is read, then what the manifest does not pin *)
(* is dropped, then the definitions whose dims are not held.  Of the        *)
(* versions of a definition the one that is read last stays, of those of a  *)
(* dim the pinned one.                                                      *)

PinnedDims(pins) ==
  [d \in Dims |-> IF pins[d] # 0 /\ <<d, pins[d]>> \in dimFiles THEN pins[d] ELSE 0]

Loads ==
  LET onDisk == {path[1] : path \in DOMAIN files}
  IN {load \in [onDisk -> Bodies] :
        \A n \in onDisk : \E path \in DOMAIN files : path[1] = n /\ load[n] = files[path]}

Retained(load, pins) ==
  [n \in {n \in DOMAIN load : /\ load[n].version = pins[n]
                              /\ Resolves(load[n].refs, PinnedDims(pins))} |-> load[n]]

Start ==
  \E pins \in Manifests, load \in Loads :
    /\ manifest' = pins
    /\ dims' = PinnedDims(pins)
    /\ defs' = Retained(load, pins)
    /\ fetch' = [f \in {} |-> 0]
    /\ UNCHANGED <<declared, files, dimFiles>>

\* The first start finds at most what the unversioned release left.
Init ==
  /\ declared \in [Dims \X Versions -> SUBSET Values]
  /\ \E flat \in SUBSET Names : files = [path \in flat \X {0} |-> Plain]
  /\ dimFiles = {}
  /\ manifest \in Manifests
  /\ dims = PinnedDims(manifest)
  /\ \E load \in Loads : defs = Retained(load, manifest)
  /\ fetch = [f \in {} |-> 0]

-----------------------------------------------------------------------------
(* A caller that finds a name in memory, or not in the manifest, is         *)
(* answered at once, and nothing changes.                                   *)

Get(f, name) ==
  /\ f \notin DOMAIN fetch
  /\ name \notin DOMAIN defs /\ manifest[name] # 0
  /\ fetch' = Put(fetch, f, Fetching(name, f))
  /\ UNCHANGED <<declared, manifest, defs, dims, files, dimFiles>>

\* A cap waits for its media defs before its dims.
BodyArrives(f, body) ==
  /\ At(f, "body")
  /\ fetch[f].name \in Caps \/ body.needs = {}
  /\ fetch' = [fetch EXCEPT ![f].body = body,
                            ![f].left = body.refs,
                            ![f].look = body.needs,
                            ![f].stage = IF fetch[f].name \in Caps THEN "media" ELSE "dims"]
  /\ UNCHANGED <<declared, manifest, defs, dims, files, dimFiles>>

\* A call ends; that it failed is told to the cap that waits for it.
Ended(f, told) ==
  [g \in DOMAIN fetch \ {f} |-> IF g \in told THEN [fetch[g] EXCEPT !.failed = TRUE]
                               ELSE fetch[g]]
Failed(f) == Ended(f, {fetch[f].parent})

MediaCached(f, m) ==
  /\ At(f, "media") /\ m \in fetch[f].look
  /\ m \in DOMAIN defs
  /\ fetch' = [fetch EXCEPT ![f].look = @ \ {m}]
  /\ UNCHANGED <<declared, manifest, defs, dims, files, dimFiles>>

MediaNotInManifest(f, m) ==
  /\ At(f, "media") /\ m \in fetch[f].look
  /\ m \notin DOMAIN defs /\ manifest[m] = 0
  /\ fetch' = [fetch EXCEPT ![f].look = @ \ {m}, ![f].failed = TRUE]
  /\ UNCHANGED <<declared, manifest, defs, dims, files, dimFiles>>

MediaFetched(f, m, g) ==
  /\ At(f, "media") /\ m \in fetch[f].look
  /\ m \notin DOMAIN defs /\ manifest[m] # 0
  /\ g \notin DOMAIN fetch
  /\ fetch' = Put([fetch EXCEPT ![f].look = @ \ {m}], g, Fetching(m, f))
  /\ UNCHANGED <<declared, manifest, defs, dims, files, dimFiles>>

Children(f) == {g \in DOMAIN fetch \ {f} : fetch[g].parent = f}

\* One media def that failed fails the cap, but only once all have ended.
MediaEnds(f) ==
  /\ At(f, "media") /\ fetch[f].look = {} /\ Children(f) = {}
  /\ fetch' = IF fetch[f].failed THEN Failed(f)
              ELSE [fetch EXCEPT ![f].stage = "dims"]
  /\ UNCHANGED <<declared, manifest, defs, dims, files, dimFiles>>

-----------------------------------------------------------------------------
(* The dims of a definition, one after another.                             *)

After(f, ref, version) ==
  IF ref[2] \in declared[<<ref[1], version>>]
  THEN [fetch EXCEPT ![f].left = @ \ {ref}, ![f].stage = "dims", ![f].at = {}]
  ELSE Failed(f)

DimCached(f, ref) ==
  /\ At(f, "dims") /\ ref \in fetch[f].left
  /\ dims[ref[1]] # 0
  /\ fetch' = After(f, ref, dims[ref[1]])
  /\ UNCHANGED <<declared, manifest, defs, dims, files, dimFiles>>

DimMissing(f, ref) ==
  /\ At(f, "dims") /\ ref \in fetch[f].left
  /\ dims[ref[1]] = 0
  /\ fetch' = IF manifest[ref[1]] = 0 THEN Failed(f)
              ELSE [fetch EXCEPT ![f].stage = "dim", ![f].at = {ref}]
  /\ UNCHANGED <<declared, manifest, defs, dims, files, dimFiles>>

Pinned(d) ==
  /\ dims' = [dims EXCEPT ![d] = manifest[d]]
  /\ dimFiles' = dimFiles \cup {<<d, manifest[d]>>}

\* It is kept on disk and in memory even if the value is not declared by it.
DimArrives(f, ref) ==
  /\ At(f, "dim") /\ ref \in fetch[f].at
  /\ Pinned(ref[1])
  /\ fetch' = After(f, ref, manifest[ref[1]])
  /\ UNCHANGED <<declared, manifest, defs, files>>

\* A reader asks for a dim itself.
GetDim(d) ==
  /\ dims[d] = 0 /\ manifest[d] # 0
  /\ Pinned(d)
  /\ UNCHANGED <<declared, manifest, defs, files, fetch>>

\* No answer, a refused body, or a dim that cannot be written.
Fails(f) ==
  /\ At(f, "body") \/ At(f, "dim")
  /\ fetch' = Failed(f)
  /\ UNCHANGED <<declared, manifest, defs, dims, files, dimFiles>>

\* A definition that cannot be written is cached all the same.
Caches(f) ==
  /\ At(f, "dims") /\ fetch[f].left = {}
  /\ LET name == fetch[f].name
         body == fetch[f].body
     IN /\ defs' = Put(defs, name, body)
        /\ files' \in {files, Put(files, <<name, manifest[name]>>, body)}
  /\ fetch' = Ended(f, {})
  /\ UNCHANGED <<declared, manifest, dims, dimFiles>>

\* clearCache empties the memory, then the disk.
Clear ==
  /\ defs' = [n \in {} |-> 0]
  /\ dims' = [d \in Dims |-> 0]
  /\ UNCHANGED <<declared, manifest, files, dimFiles, fetch>>

ClearDisk ==
  /\ files' = [p \in {} |-> 0] /\ dimFiles' = {}
  /\ UNCHANGED <<declared, manifest, defs, dims, fetch>>

Step(f) ==
  \/ \E name \in Names : Get(f, name)
  \/ \E body \in Bodies : BodyArrives(f, body)
  \/ \E m \in Medias : MediaCached(f, m) \/ MediaNotInManifest(f, m)
  \/ \E m \in Medias, g \in Fetches : MediaFetched(f, m, g)
  \/ MediaEnds(f)
  \/ \E ref \in Refs : DimCached(f, ref) \/ DimMissing(f, ref) \/ DimArrives(f, ref)
  \/ Fails(f)
  \/ Caches(f)

Next == Start \/ (\E d \in Dims : GetDim(d)) \/ (\E f \in Fetches : Step(f))
Spec == Init /\ [][Next]_vars

\* clearCache is called by no one in the sources but the users of the library.
ClearSpec == Init /\ [][Next \/ Clear \/ ClearDisk]_vars

-----------------------------------------------------------------------------
Calls ==
  [stage : {"body", "media", "dims", "dim"}, name : Names, parent : Fetches,
   failed : BOOLEAN, body : Bodies, look : SUBSET Medias, left : SUBSET Refs,
   at : SUBSET Refs]

(* The variables keep their types.                                          *)
TypeOK ==
  /\ declared \in [Dims \X Versions -> SUBSET Values]
  /\ manifest \in Manifests
  /\ DOMAIN defs \subseteq Names /\ \A n \in DOMAIN defs : defs[n] \in Bodies
  /\ dims \in [Dims -> Pins]
  /\ DOMAIN files \subseteq Names \X Pins /\ \A p \in DOMAIN files : files[p] \in Bodies
  /\ dimFiles \subseteq Dims \X Pins
  /\ DOMAIN fetch \subseteq Fetches /\ \A f \in DOMAIN fetch : fetch[f] \in Calls

(* A reader that holds a definition finds each dim it names, with the value *)
(* it names (CSFabricRegistry.h:107-110, 291-293), whoever fetched it and   *)
(* whatever the disk held at the last start.                                *)
DimsHeld == \A n \in DOMAIN defs : Resolves(defs[n].refs, dims)

(* The dims in memory are of the versions the manifest pins.                *)
DimsPinned == \A d \in Dims : dims[d] # 0 => dims[d] = manifest[d]

(* A cap is only cached after every media def it references                 *)
(* (CSFabricRegistry.h:102-105): so it is by every step but a start.        *)
CapAfterMedia ==
  [][Start \/ \A n \in Caps \ DOMAIN defs :
       n \in DOMAIN defs' => defs'[n].needs \subseteq DOMAIN defs]_vars

(* What a start makes of it: it keeps a cap whose media defs it drops, for  *)
(* it looks at the dims of a cap alone.                                     *)
MediaHeld == \A n \in Caps \cap DOMAIN defs : defs[n].needs \subseteq DOMAIN defs

(* A flat definition never satisfies a lookup (CSFabricRegistry.m:581-583): *)
(* it does for a name the manifest does not list, whose pin reads as 0.     *)
OnlyListed == \A n \in DOMAIN defs : manifest[n] # 0
=============================================================================
