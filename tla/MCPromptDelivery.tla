------------------------- MODULE MCPromptDelivery -------------------------
(* PromptDelivery for TLC: the configurations list items, prompts and      *)
(* steers as model values of their own.                                    *)
EXTENDS PromptDelivery
=============================================================================
