------------------------------- MODULE MCDevice -------------------------------
(* Small instances of Panel and Input.  A behaviour is about one of: home  *)
(* as time and photos go by; the shelf and the other screens, no time      *)
(* passing; a button; the wheel.  The rest does not move.                  *)
EXTENDS Panel, Input

VARIABLE about

vars == <<panelVars, inputVars, about>>

MCButtons == <<"ok">>

Init ==
  /\ PanelInit /\ InputInit
  /\ about \in {"home", "library", "button", "wheel"}
  /\ about # "home" => photos = {}
  /\ about # "button" => \A i \in DOMAIN Buttons : ~buttons[i].pressed
  /\ about \in {"home", "library"} => now = 0

Next ==
  /\ UNCHANGED about
  /\ \/ /\ about = "home"
        /\ Refreshes \/ HomeNext
        /\ mode' # "shelf" /\ books' = <<>>
        /\ UNCHANGED inputVars
     \/ /\ about = "library"
        /\ Refreshes \/ LibraryNext
        /\ time'.clock = 0 /\ time'.age = 0
        /\ UNCHANGED inputVars
     \/ /\ about = "button"
        /\ InputNext
        /\ ~wheel'.a.candidate /\ ~wheel'.b.candidate
        /\ UNCHANGED panelVars
     \/ /\ about = "wheel"
        /\ InputNext
        /\ \A i \in DOMAIN Buttons : ~buttons'[i].line.candidate
        /\ UNCHANGED panelVars

Spec == Init /\ [][Next]_vars
================================================================================
