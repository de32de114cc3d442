--------------------------- MODULE MCBotLifecycle ---------------------------
(* BotLifecycle for TLC: two requests and the two bots they may create.    *)
EXTENDS BotLifecycle, TLC

CONSTANTS b1, b2, r1, r2
=============================================================================
