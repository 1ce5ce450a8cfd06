---------------------------- MODULE MCAudioVoices ----------------------------
(* Model-checking instances of AudioVoices. *)
EXTENDS AudioVoices

Ops(step, key, edit, set, tweak, switch) ==
  [step |-> step, key |-> key, edit |-> edit, set |-> set, tweak |-> tweak, switch |-> switch]

\* Two tracks of the engine, or of different kinds, or one.
Shared == {<<"engine", "engine">>, <<"engine", "sampler">>, <<"engine">>}
Mixed == {<<"sampler", "engine">>}

\* Steps and keys with an edit; steps alone under every setting; steps that lock
\* sounds while knobs are turned, patterns switched and tracks edited.
Mixes == {Ops(2, 1, 1, 0, 0, 0), Ops(1, 2, 0, 0, 0, 0), Ops(3, 0, 0, 1, 0, 0),
          Ops(2, 0, 1, 1, 0, 0), Ops(2, 0, 0, 0, 1, 1), Ops(1, 1, 0, 0, 1, 0),
          Ops(2, 0, 0, 0, 2, 0), Ops(2, 0, 1, 0, 1, 0)}
OneEdit == {Ops(0, 1, 1, 0, 0, 0)}
=============================================================================
