----------------------------- MODULE MCOvernight -----------------------------
(* Instances of Overnight for TLC. *)
EXTENDS Overnight, TLC

CONSTANTS site, web, app, fix1, feat1

OneTarget == {site}
ThreeTargets == {site, web, app}

TargetOfSite == [i \in Items |-> site]

(* site is called "web-app". *)
TextsOfThree == ThreeTargets \cup {"-app", "web-", ""}

NamesInThree ==
  site :> ThreeTargets @@ web :> {web} @@ app :> {app} @@ "-app" :> {app} @@ "web-" :> {web} @@ "" :> {}

StrikeThree ==
  [p \in ThreeTargets \X TextsOfThree |->
     IF p[1] \notin NamesInThree[p[2]] THEN p[2]
     ELSE CASE p = <<web, site>> -> "-app" [] p = <<app, site>> -> "web-" [] OTHER -> ""]

TextsOfOne == {site, ""}
NamesInOne == site :> {site} @@ "" :> {}
StrikeOne == [p \in OneTarget \X TextsOfOne |-> ""]

=============================================================================
