---------------------------- MODULE MCVoiceLoop ----------------------------
(* VoiceLoop in the setups of its runs.                                     *)
EXTENDS VoiceLoop

Faults      == [events |-> {"link", "provider", "tail"}, aborts |-> 1, stops |-> 0]
Calm        == [events |-> {}, aborts |-> 0, stops |-> 1]
BindingEnds == [events |-> {"close", "replace", "link"}, aborts |-> 0, stops |-> 1]
Aborting    == [events |-> {}, aborts |-> 1, stops |-> 0]

FaultsOrStop == {Faults, Calm}
Closings     == {BindingEnds}
Abortings    == {Aborting}
=============================================================================
