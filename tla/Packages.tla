------------------------------ MODULE Packages ------------------------------
(***************************************************************************)
(* What a mod is on disk, and how it is read, packaged and ordered:        *)
(* src/crates/mods/src/lib.rs.                                             *)
(*                                                                         *)
(* A source is a directory, a zip or a set of files in memory.  Its files  *)
(* are a function from paths, which are sequences of names, to contents.   *)
(* A digest is the sequence of the chunks fed to FNV-1a, so two digests    *)
(* are equal only if the hashed chunks are.                                *)
(***************************************************************************)
EXTENDS Naturals, Sequences, FiniteSets, SequencesExt

CONSTANTS
  None,
  MaxId,     \* ids are 1..MaxId, in their lexicographic order
  MaxMods    \* MAX_MODS: sources considered at all

ASSUME PackagesAssumption == MaxId \in Nat /\ MaxMods \in Nat

Ids == 1..MaxId
ModJson == <<"mod.json">>

-----------------------------------------------------------------------------
(* Contents.                                                               *)

\* A text, however its lines end, or the bytes of an asset.
Text(t) == [kind |-> "text", text |-> t]
\* Something that begins with "\0asm", and something over the size limit.
Module(t) == [kind |-> "wasm", text |-> t]
Huge == [kind |-> "huge"]
\* No bytes.
Empty == [kind |-> "empty"]

\* RawManifest, with what this build's checks make of it.
Raw(id, side, entry, wasm, assets, after) ==
  [kind |-> "manifest", id |-> id, version |-> 1, api |-> 1, side |-> side,
   entry |-> entry, tuning |-> None, wasm |-> wasm,
   assets |-> assets,   \* Seq([slot, file, add]): assets, then asset_adds
   after |-> after]     \* load_after

\* A source, and none.
Source(form, files) == [kind |-> form, files |-> files]
Missing == [kind |-> "missing"]

-----------------------------------------------------------------------------
(* Sequences.                                                              *)

\* The numbers of S, the least first.
InOrder(S) ==
  [k \in 1..Cardinality(S) |-> CHOOSE i \in S : Cardinality({j \in S : j < i}) = k - 1]

\* What s has at some of its places, in its order.
Those(s, places) ==
  LET at == InOrder(places) IN [k \in DOMAIN at |-> s[at[k]]]

-----------------------------------------------------------------------------
(* Reading.                                                                *)

EndsIn(q, p) == Len(q) > Len(p) /\ SubSeq(q, Len(q) - Len(p) + 1, Len(q)) = p

\* read_zip_entry: the entry itself, else every one that ends in "/p".
Candidates(files, p) ==
  IF p \in DOMAIN files THEN {p} ELSE {q \in DOMAIN files : EndsIn(q, p)}

\* A zip wants exactly one candidate; the rest take the name as it is.
ReadZip(files, p) ==
  LET found == Candidates(files, p)
  IN IF Cardinality(found) = 1 THEN files[CHOOSE q \in found : TRUE] ELSE None

\* ModSource::read, capped.
Read(src, p) ==
  LET content == IF src.kind = "zip" THEN ReadZip(src.files, p)
                 ELSE IF p \in DOMAIN src.files THEN src.files[p] ELSE None
  IN IF content = Huge THEN None ELSE content

\* read_source_text: valid UTF-8, with "\n" for "\r\n".
ReadText(src, p) ==
  LET content == Read(src, p)
  IN IF content = None \/ content.kind # "text" THEN None ELSE content.text

\* read_asset, read_asset_source: whatever it is, byte for byte.
ReadAsset(src, p) == Read(src, p)

\* safe_join, valid_relative: no ".." and no root.
Inside(p) == p # <<>> /\ \A k \in DOMAIN p : p[k] \notin {"..", "/"}

-----------------------------------------------------------------------------
(* load_source.                                                            *)

\* The checks on the manifest itself.
WellFormed(raw) ==
  /\ raw # None /\ raw.kind = "manifest"
  /\ raw.id \in Ids                      \* valid_id
  /\ raw.version # None /\ raw.api = 1
  /\ raw.side \in {"client", "world"}
  /\ \A j, k \in DOMAIN raw.assets :     \* a slot is filled or added to
       raw.assets[j].slot = raw.assets[k].slot => raw.assets[j].add = raw.assets[k].add

\* Everything it declares can be read.  Only who keeps the bytes of a module
\* looks at their magic number.
Readable(src, raw, mode) ==
  /\ \A p \in {raw.entry, raw.tuning} \ {None} : Inside(p) /\ ReadText(src, p) # None
  /\ \A k \in DOMAIN raw.assets :
       Inside(raw.assets[k].file) /\ ReadAsset(src, raw.assets[k].file) # None
  /\ raw.wasm # None =>
       /\ Inside(raw.wasm) /\ ReadAsset(src, raw.wasm) # None
       /\ mode # "hash" => ReadAsset(src, raw.wasm).kind = "wasm"

\* The engine's name of an asset: its mod, its slot, and its index in a list.
AssetName(raw, k) ==
  LET inSlot == {j \in DOMAIN raw.assets : raw.assets[j].slot = raw.assets[k].slot}
  IN <<raw.id, raw.assets[k].slot,
       IF inSlot = {k} THEN None ELSE Cardinality({j \in inSlot : j < k})>>

\* hash_manifest.
Digest(src, raw) ==
  LET text(p) == IF p = None THEN <<>> ELSE <<ReadText(src, p)>>
  IN <<raw.id, raw.version>> \o text(raw.entry) \o text(raw.tuning)
     \o (IF raw.wasm = None THEN <<>> ELSE <<ReadAsset(src, raw.wasm)>>)
     \o [k \in DOMAIN raw.assets |-> <<AssetName(raw, k), ReadAsset(src, raw.assets[k].file)>>]

\* The assets by their names; a manifest for hashing has no bytes to give.
Assets(src, raw, mode) ==
  [n \in {AssetName(raw, k) : k \in DOMAIN raw.assets} |->
     IF mode = "keep"
       THEN ReadAsset(src, raw.assets[CHOOSE k \in DOMAIN raw.assets : AssetName(raw, k) = n].file)
       ELSE Empty]

\* A manifest, as the loader keeps it; slot is where it was read from, and a
\* mod from memory keeps its files.
Manifest(src, slot, raw, mode) ==
  [id |-> raw.id, version |-> raw.version, side |-> raw.side,
   entry |-> IF raw.entry = None THEN None ELSE ReadText(src, raw.entry),
   wasm |-> IF raw.wasm = None THEN None
            ELSE IF mode = "hash" THEN Empty ELSE ReadAsset(src, raw.wasm),
   assets |-> Assets(src, raw, mode), after |-> raw.after, digest |-> Digest(src, raw),
   slot |-> slot, memory |-> IF src.kind = "memory" THEN src ELSE None,
   enabled |-> TRUE]

\* What does not load is an error, and no mod.
Loads(src, mode) ==
  /\ src # Missing
  /\ WellFormed(Read(src, ModJson))
  /\ Readable(src, Read(src, ModJson), mode)

LoadSource(src, slot, mode) == Manifest(src, slot, Read(src, ModJson), mode)

-----------------------------------------------------------------------------
(* Packaging.                                                              *)

\* archive_source, archive_dir: every file under its own path.
Archive(src) == IF src.kind = "zip" THEN src ELSE Source("zip", src.files)

\* common_wrapper: the one directory mod.json lies in, unless it is the root.
Wrapper(files) ==
  LET above == {SubSeq(q, 1, Len(q) - 1) : q \in {r \in DOMAIN files : EndsIn(r, ModJson)}}
  IN IF ModJson \in DOMAIN files \/ Cardinality(above) # 1 THEN <<>>
     ELSE CHOOSE w \in above : TRUE

\* A faulty Unwrapped: the tree keeps the wrapper.
Wrapped(files, q) == q

Unwrapped(files, q) ==
  LET w == Wrapper(files)
  IN IF w # <<>> /\ Len(q) > Len(w) /\ SubSeq(q, 1, Len(w)) = w
       THEN SubSeq(q, Len(w) + 1, Len(q)) ELSE q

\* materialize_zip: two entries may not land on one path.
MaterializeZip(files) ==
  LET place == [q \in DOMAIN files |-> Unwrapped(files, q)]
  IN IF \E q, r \in DOMAIN files : q # r /\ place[q] = place[r] THEN Missing
     ELSE Source("dir", [p \in {place[q] : q \in DOMAIN files} |->
                           files[CHOOSE q \in DOMAIN files : place[q] = p]])

\* materialize, materialize_dir, materialize_memory: the tree of a package.
Materialize(src) ==
  IF src.kind = "zip" THEN MaterializeZip(src.files) ELSE Source("dir", src.files)

\* pull::share: what the registry imports, a directory where it stands.
Shared(src) == IF src.kind = "dir" THEN src ELSE Materialize(src)

-----------------------------------------------------------------------------
(* order.                                                                  *)

\* Of several mods with one id, the first by path is kept.
First(ms, i) == ms[CHOOSE k \in DOMAIN ms :
                     ms[k].id = i /\ \A j \in DOMAIN ms : ms[j].id = i => k <= j]

IdsOf(ms) == {ms[k].id : k \in DOMAIN ms}
LeastId(S) == CHOOSE i \in S : \A j \in S : i <= j

\* The mods i waits for: itself and what is not installed do not count.
Waits(ms, i) == (First(ms, i).after \cap IdsOf(ms)) \ {i}

\* Those that wait for nothing that is not done.
Ready(waits, done) ==
  {i \in DOMAIN waits \ ToSet(done) : waits[i] \subseteq ToSet(done)}

\* One mod after another, always the least id that is ready.
Placed(waits) ==
  LET all == Cardinality(DOMAIN waits)
      placed[n \in 0..all] ==
        IF n = 0 THEN <<>>
        ELSE LET done == placed[n - 1]
             IN IF Ready(waits, done) = {} THEN done
                ELSE Append(done, LeastId(Ready(waits, done)))
  IN placed[all]

\* A cycle leaves some over, which come last in id order.
OrderOfIds(waits) ==
  LET placed == Placed(waits)
  IN placed \o InOrder(DOMAIN waits \ ToSet(placed))

\* A faulty Order: the order of the paths.
OrderByPath(ms) ==
  SelectSeq(ms, LAMBDA m : First(ms, m.id) = m)

Order(ms) ==
  LET ids == OrderOfIds([i \in IdsOf(ms) |-> Waits(ms, i)])
  IN <<>> \o [k \in DOMAIN ids |-> First(ms, ids[k])]

-----------------------------------------------------------------------------
(* Loader: a sequence of manifests with pairwise different ids.            *)

Position(ms, i) == CHOOSE k \in DOMAIN ms : ms[k].id = i
Get(ms, i) == ms[Position(ms, i)]

\* discover_with: the sources in the order of their paths, at most MaxMods.
Discover(disk, mode) ==
  LET found == InOrder({s \in DOMAIN disk : disk[s] # Missing})
      considered == SubSeq(found, 1, IF Len(found) > MaxMods THEN MaxMods ELSE Len(found))
      loading == Those(considered, {k \in DOMAIN considered : Loads(disk[considered[k]], mode)})
  IN Order(<<>> \o [k \in DOMAIN loading |-> LoadSource(disk[loading[k]], loading[k], mode)])

\* take_assets: the names stay, the bytes go.
Taken(ms, i) ==
  [ms EXCEPT ![Position(ms, i)].assets = [n \in DOMAIN Get(ms, i).assets |-> Empty]]

\* Where a manifest is read again from.
SourceOf(m, disk) == IF m.memory # None THEN m.memory ELSE disk[m.slot]

\* reload: read again from where it was.  What no longer loads, or loads
\* under another id, leaves the old manifest; the order is not recomputed.
Reloaded(ms, i, disk) ==
  LET old == Get(ms, i)
      src == SourceOf(old, disk)
      new == LoadSource(src, old.slot, "keep")
  IN IF ~Loads(src, "keep") \/ new.id # i THEN ms
     ELSE [ms EXCEPT ![Position(ms, i)] = [new EXCEPT !.enabled = old.enabled]]

\* insert: in the place of the one with its id, and in the order anew.
Inserted(ms, m) == Order(Append(Those(ms, {k \in DOMAIN ms : ms[k].id # m.id}), m))

\* replace: as insert, but on or off as before.
Replaced(ms, m) == Inserted(ms, [m EXCEPT !.enabled = Get(ms, m.id).enabled])

\* set_enabled.
Toggled(ms, i, on) == [ms EXCEPT ![Position(ms, i)].enabled = on]

\* mods_touching: the mods a changed file belongs to.
Touching(ms, slots) == {ms[k].id : k \in {j \in DOMAIN ms : ms[j].slot \in slots}}
=============================================================================
