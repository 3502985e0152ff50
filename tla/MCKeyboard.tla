----------------------------- MODULE MCKeyboard -----------------------------
EXTENDS Keyboard, TLC

(* A prompt of one character, and one line printed before it.              *)
SmallPrompt == <<NL, "$">>
SmallBootText == <<"a", NL>>
SmallCommands == ("help" :> <<"h">>) @@ ("uname" :> <<"u">>) @@ ("reboot" :> <<"h", "u">>)
SmallOutput == ("help" :> <<NL, "?">>) @@ ("uname" :> <<NL, "v">>) @@ ("reboot" :> <<>>)
=============================================================================
