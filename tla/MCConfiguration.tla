-------------------------- MODULE MCConfiguration --------------------------
(* An instance of Configuration for TLC: two leaves, one display that its   *)
(* model's table and its connector's table speak of, and files with all     *)
(* kinds of lines.                                                          *)
EXTENDS Configuration, TLC

TheDefaults == [key \in {"effect"} \X {"dimming", "artwork"} |-> "default"]

\* Numbers and choices as typed: one the loader rewrites, one it refuses.
TheCoercion == [default |-> "default", low |-> "low", high |-> "high",
                HIGH |-> "high", wrong |-> Invalid]

ByDisplay == <<"outputs.model", "outputs.connector">>

OrdinaryText ==
  <<Comment, Header("effect"), Assignment("dimming", "low"), Assignment("typo", "low"),
    Blank, Comment, Header("outputs.model"), Assignment("dimming", "low")>>
QuotedText == <<Header("effect"), Quoted("dimming", "high"), Comment>>
RefusedText == <<Header("outputs.connector"), Assignment("dimming", "wrong"),
                 Header("effect"), Assignment("artwork", "wrong"), Blank>>
TwiceText == <<Header("effect"), Assignment("dimming", "low"), Assignment("dimming", "high")>>
TheTexts == {<<>>, OrdinaryText, QuotedText, RefusedText, TwiceText}

TheSystemTexts == {<<>>, <<Header("effect"), Assignment("artwork", "HIGH"), Assignment("dimming", "high")>>}

ThePayloads ==
  {(<<"effect", "dimming">> :> "HIGH") @@ (<<"outputs.connector", "dimming">> :> "low")
     @@ (<<"effect", "typo">> :> "low"),
   (<<"effect", "artwork">> :> "wrong") @@ (<<"outputs.model", "artwork">> :> "high")
     @@ (<<"effect", "dimming">> :> "low")}

TheKeyLists ==
  {{<<"effect", "dimming">>, <<"effect", "typo">>},
   {<<"outputs.model", "dimming">>, <<"outputs.model", "artwork">>}}
=============================================================================
