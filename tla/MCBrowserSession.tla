-------------------------- MODULE MCBrowserSession --------------------------
(* The instance of BrowserSession that TLC checks: no symmetry, because    *)
(* Fresh chooses among Tokens and two properties are liveness properties.  *)
EXTENDS BrowserSession
=============================================================================
