---- MODULE MCPatternBank ----
(* Model-checking instances of PatternBank. *)
EXTENDS PatternBank

CONSTANTS t1, t2, t3

ThreeTracks == {t1, t2, t3}
Setup(kinds, fx, n, allow) ==
  [kinds |-> kinds, names |-> SubSeq(<<t1, t2, t3>>, 1, Len(kinds)), fx |-> fx,
   ops |-> n, allow |-> allow]

EverySetup == {
  Setup(<<"custom", "custom", "sampler">>, <<Duck, NoFx>>, 6,
        {"sidechain", "switch", "clone", "remove", "propagate", "add"}),
  Setup(<<"custom", "sampler">>, <<NoFx, NoFx>>, 6,
        {"body", "instrument", "polyphony", "switch", "clone", "tear", "remove", "propagate", "add"}),
  Setup(<<"custom">>, <<Duck, NoFx>>, 6,
        {"effect", "switch", "clone", "tear", "load", "unload", "add", "propagate"})}
====
