----------------------------- MODULE MCWidgetPage -----------------------------
(* WidgetPage for TLC.                                                     *)
EXTENDS WidgetPage
=============================================================================
