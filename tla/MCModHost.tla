------------------------------ MODULE MCModHost ------------------------------
(* Small instances of ModHost for TLC. *)
EXTENDS ModHost

Sound(slot) == <<[slot |-> slot, file |-> <<"s.wav">>, add |-> FALSE]>>

\* A world mod with an entry and a sound, laid out by kind; the copy inside it
\* is what the endings of names could take for the mod itself.
FlockFiles(entry) ==
  ModJson :> Raw(1, "world", <<"main.js">>, None, Sound("bleat"), {}) @@
  <<"main.js">> :> Text(entry) @@ <<"s.wav">> :> Text("baa") @@
  <<"old", "mod.json">> :> Raw(2, "client", None, None, <<>>, {}) @@
  <<"old", "main.js">> :> Text("old")

\* A compiled mod in a wrapped archive, which wants the other loaded first.
Compiled(module, side, after) ==
  Source("zip", <<"pkg", "mod.json">> :> Raw(2, side, None, <<"m.wasm">>, <<>>, after) @@
                <<"pkg", "m.wasm">> :> Module(module))

Flock == Source("dir", FlockFiles("flock"))
FlockEdited == Source("dir", FlockFiles("edited"))
FlockThrows == Source("dir", FlockFiles("throws"))
\* The entry is gone, so the manifest does not load.
FlockBroken == Source("dir", ModJson :> Raw(1, "world", <<"main.js">>, None, Sound("bleat"), {}))
\* As the first, but it waits for the second.
FlockLater == Source("dir", ModJson :> Raw(1, "world", None, None, <<>>, {2}))

Stored(entry) == Source("memory", FlockFiles(entry))
Fat == Source("memory", ModJson :> Raw(2, "client", <<"main.js">>, <<"m.wasm">>, <<>>, {1}) @@
                        <<"main.js">> :> Text("fat") @@ <<"m.wasm">> :> Module("belly"))

World == Compiled("boids", "world", {1})

SomeDisks == {<<Flock, World>>, <<FlockLater, World>>, <<World, Missing>>,
              <<Stored("flock"), Missing>>, <<Stored("flock"), Fat>>}
SomeDrafts == <<{Flock, FlockEdited, FlockBroken, FlockThrows, Missing},
                {World, Compiled("trapping", "world", {1}), Compiled("belly", "client", {1}),
                 Source("zip", FlockFiles("second")), Missing}>>
SomeEdited == {Stored("edited"), Fat}

=============================================================================
