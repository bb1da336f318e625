-------------------------- MODULE MCStreamExchange --------------------------
(* Instances of StreamExchange for TLC.  A text is a sequence of one-character *)
(* strings: "B" is a capital letter, "z" a format character, "_" a space.      *)
EXTENDS StreamExchange

\* One rule that blocks, with a prefix that overlaps itself, and two whose
\* weights reach the threshold only together.
MCRules == <<[pattern |-> <<"b", "B", "a">>, action |-> "block", weight |-> 0],
             [pattern |-> <<"a">>, action |-> "monitor", weight |-> 40],
             [pattern |-> <<"b", "_", "b">>, action |-> "", weight |-> 40],
             [pattern |-> <<>>, action |-> "block", weight |-> 10]>>
MCChannels == {"c1", "c2"}
MCAlphabet == {"a", "b", "B", "z", "_"}
MCFormat == {"z"}
MCLower == [B |-> "b"]

\* closed only matters before the exchange and limited only in it: each value
\* of one meets some value of the other.
Config(enabled, auditor, closed, limited) ==
  [enabled |-> enabled, auditor |-> auditor, closed |-> closed, limited |-> limited]
MCConfigs == {Config(FALSE, FALSE, FALSE, TRUE), Config(TRUE, FALSE, FALSE, FALSE),
              Config(TRUE, TRUE, FALSE, TRUE), Config(TRUE, TRUE, TRUE, FALSE)}
MCRequests == {<<"b">>, <<"b", "z", "a">>, <<"B", "b", "a">>}
MCBodies == {<<"_", "b">>, <<"b", "_", "_", "B", "a">>}

At(channel, text) == [channel |-> channel, text |-> text]
MCEvents == {<<>>,
             <<At("c1", <<"b">>)>>,
             <<At("c1", <<"z", "B">>)>>,
             <<At("c1", <<"a">>)>>,
             <<At("c1", <<"b", "_">>)>>,
             <<At("c2", <<"_">>)>>,
             <<At("c1", <<"b", "b">>), At("c2", <<"b">>)>>}
=============================================================================
