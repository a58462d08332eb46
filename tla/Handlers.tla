------------------------------ MODULE Handlers -------------------------------
(***************************************************************************)
(* How CivetWeb finds the request handler of a URI among those registered, *)
(* and the four that main registers.  A URI is the sequence of its         *)
(* segments: "/employee/" is <<"employee", "">>.                           *)
(***************************************************************************)
EXTENDS Naturals, Sequences

SeqExt == INSTANCE SequencesExt

CONSTANT Begins   \* the pairs of segments, different and not empty, whose first
                  \* begins with the second when case makes no difference

\* None of the segments registered begins another.
ASSUME BeginsAssumption == \A s, t \in {"employee", "metrics", "reset"} : <<s, t>> \notin Begins

\* server.c:257-261, in this order.
Registered == << <<"employee">>, <<"employee", "">>, <<"metrics">>, <<"metrics", "reset">> >>

\* The comparison of match.inl, over the length of the second segment or of both.
BeginsWith(s, t) == s = t \/ t = "" \/ <<s, t>> \in Begins
SameText(s, t)   == BeginsWith(s, t) /\ BeginsWith(t, s)

ExactMatch(h, uri) == h = uri

\* uri/something
PartialMatch(h, uri) == Len(h) < Len(uri) /\ SeqExt!IsPrefix(h, uri)

\* match_prefix of a pattern without wildcards: the text is a prefix.
PatternMatch(h, uri) ==
  /\ Len(h) <= Len(uri)
  /\ \A i \in 1..(Len(h) - 1) : SameText(uri[i], h[i])
  /\ BeginsWith(uri[Len(h)], h[Len(h)])

\* The first entry of the list that a pass finds; 0 is none.
FirstOf(found) == IF found = {} THEN 0 ELSE SeqExt!Min(found)

\* Mutant: one pass over the list that takes any kind of match.
Find_OnePass(list, uri) ==
  FirstOf({i \in DOMAIN list : \/ ExactMatch(list[i], uri)
                               \/ PartialMatch(list[i], uri)
                               \/ PatternMatch(list[i], uri)})

\* Three passes over the list: exact, partial, pattern.
Find(list, uri) ==
  LET exact   == FirstOf({i \in DOMAIN list : ExactMatch(list[i], uri)})
      partial == FirstOf({i \in DOMAIN list : PartialMatch(list[i], uri)})
  IN  IF exact # 0 THEN exact
      ELSE IF partial # 0 THEN partial
      ELSE FirstOf({i \in DOMAIN list : PatternMatch(list[i], uri)})
=============================================================================
