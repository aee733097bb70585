------------------------- MODULE MCBrowserAcceptance -------------------------
(* BrowserAcceptance on a small instance.                                  *)
EXTENDS BrowserAcceptance
=============================================================================
