----------------------------- MODULE MCMiniApp -----------------------------
(***************************************************************************)
(* A small instance of MiniApp for TLC.  Amounts and rates are chosen so   *)
(* that one amount is rounded to zero and the other is not exact.          *)
(***************************************************************************)
EXTENDS MiniApp, TLC

\* Production opened from Telegram and by hand, a production build with the
\* settings of a local one, a local build, and the preview with the mock.
MCBuilds ==
    LET Build(protected, mode, baseUrl, devUserId, initData) ==
          [protected |-> protected, mode |-> mode, baseUrl |-> baseUrl,
           devUserId |-> devUserId, initData |-> initData]
    IN {Build(TRUE, "api", TRUE, FALSE, TRUE),
        Build(TRUE, "unset", TRUE, FALSE, FALSE),
        Build(TRUE, "api", TRUE, TRUE, FALSE),
        Build(FALSE, "unset", TRUE, TRUE, FALSE),
        Build(FALSE, "unset", FALSE, FALSE, FALSE)}
=============================================================================
