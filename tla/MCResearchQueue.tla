--------------------------- MODULE MCResearchQueue ---------------------------
(* ResearchQueue, its sessions exchangeable, over a small encyclopedia: an *)
(* article links back to its topic and to a title that redirects to it.    *)
EXTENDS ResearchQueue

Exchange == Permutations(Session)

MCTitle == 1..3
MCTopic == {1, 3}
MCArticle == <<1, 3, 3>>
MCLinks == <<<<3, 2>>, <<>>, <<1, 2>>>>

=============================================================================
