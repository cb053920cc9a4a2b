---------------------------- MODULE MCGeneration ----------------------------
(* Instances of Generation for TLC.  The article of the task is a, with     *)
(* dossier d.                                                               *)
EXTENDS Generation

CONSTANTS m1, m2

(* One model, and fallbacks with a blank and a repeated name.               *)
Chains ==
  {[model |-> m1, fallbacks |-> <<>>],
   [model |-> m1, fallbacks |-> <<NoName, m2, m1>>]}

SomePolicies ==
  {[mode |-> "all", review |-> "auto"],       [mode |-> "suggested", review |-> "auto_publish"],
   [mode |-> "other", review |-> "auto"],     [mode |-> "all", review |-> "other"]}

SomeAnalyses ==
  {[core |-> c, topic |-> t, score |-> s] :
     c \in {Blank, "core"}, t \in {Blank, "topic"}, s \in {-50, 700, 1100}}

SomeDossiers ==
  [core : {Blank, "core"}, topic : {Blank, "topic"}, score : {0, 40}, priority : {Blank, 1},
   suggestion : {"true", "for", "both", "against", "missed", "other"}]

Other(i, s, p, t) ==
  [article |-> "a" \o i, dossier |-> "d" \o i, score |-> s, priority |-> p, title |-> t]

(* Two articles that nothing tells apart, which the one of the task may     *)
(* equal in score and in priority, and one that it may equal in everything. *)
SomeOthers ==
  {<<>>, <<Other("1", 40, 3, 2), Other("2", 40, 3, 2), Other("3", 70, 1, 1)>>}

Item(i, j) ==
  [article |-> i, dossier |-> j, title |-> "t", bucket |-> Blank, featured |-> FALSE]

Articles == {Blank, "a", "a1", "x"}
Ids      == {Blank, "d", "d1", "x"}

(* One item; two sections; and plans with something missing.                *)
SomePlans ==
  {<<[name |-> "s", items |-> <<Item(i, j)>>]>> : i \in Articles, j \in Ids}
    \cup {<<[name |-> "s", items |-> <<Item("a", i)>>], [name |-> "t", items |-> <<Item("x", j)>>]>> :
            i, j \in {Blank, "d1"}}
    \cup {<<>>, <<[name |-> "s", items |-> <<>>]>>, <<[name |-> Blank, items |-> <<Item("a", "d")>>]>>,
          <<[name |-> "s", items |-> <<[Item("a", "d") EXCEPT !.title = Blank]>>]>>}
=============================================================================
