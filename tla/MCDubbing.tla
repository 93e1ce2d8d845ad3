----------------------------- MODULE MCDubbing -----------------------------
(* Instances of Dubbing for the model checker. *)
EXTENDS Dubbing

At(s, from, to) == [speaker |-> s, start |-> from, end |-> to]
\* A unit of two lines and a clip after it; three single lines.
Script1 == << At("a", 0, 4), At("a", 4, 6), At("b", 8, 12) >>
Script2 == << At("a", 0, 4), At("b", 4, 8), At("a", 9, 11) >>
MCScripts == {Script1, Script2}

Setup(mode, provider, enrollment, ref, known) ==
    [mode |-> mode, provider |-> provider, enrollment |-> enrollment, ref |-> ref, known |-> known]
MCSetups ==
    {Setup("best_effort", "elevenlabs", TRUE, "cloud", TRUE),
     Setup("required", "elevenlabs", TRUE, "cloud", TRUE),
     Setup("required", "cosyvoice", TRUE, "cloud", TRUE),
     Setup("required", "cosyvoice", FALSE, "cloud", TRUE),
     Setup("best_effort", "cosyvoice", TRUE, "local", TRUE),
     Setup("required", "voxcpm", TRUE, "local", TRUE),
     Setup("required", "elevenlabs", TRUE, "none", TRUE),
     Setup("off", "elevenlabs", TRUE, "cloud", TRUE),
     Setup("required", "elevenlabs", TRUE, "cloud", FALSE)}
MCRedone == {{}, {2}, Lines}
MCMade == {{}, {1}}
MCDurations == {5, 6}
=============================================================================
