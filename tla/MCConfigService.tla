--------------------------- MODULE MCConfigService ---------------------------
(* Two providers, one enabled; the browser sends the redacted view back with *)
(* a cold change, a new token, and a value that validation refuses.          *)
EXTENDS ConfigService
CONSTANTS stock, crypto

Both(x, y) == [p \in Providers |-> IF p = stock THEN x ELSE y]
FirstConfig == [provider |-> Both("paper", Off), cold |-> 1, token |-> "t1"]
PutConfigs == {[FirstConfig EXCEPT !.cold = 2, !.token = Redacted],
               [FirstConfig EXCEPT !.provider = Both("paper", "paper"), !.token = "t2"],
               [FirstConfig EXCEPT !.cold = 0, !.token = Redacted]}
EditedFiles == {Torn, FirstConfig, [FirstConfig EXCEPT !.provider = Both(Off, Off), !.token = "t2"]}
=============================================================================
