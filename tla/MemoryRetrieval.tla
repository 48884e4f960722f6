-------------------------- MODULE MemoryRetrieval --------------------------
(***************************************************************************)
(* The hybrid retrieval of approved memory cards (governed_context.py): the *)
(* hard gates of scope and time, three lexical channels and an optional     *)
(* local embedding, their fusion by reciprocal rank, and the cut at the     *)
(* limit of the query.                                                      *)
(*                                                                          *)
(* Data that is abstracted: a card's text is how often each query word is   *)
(* in it and its length; words are single CJK characters, for which the     *)
(* word and the n-gram tokens are the same.  The position of a card stands  *)
(* for its digest in the last tie-break.  The embedding is a score of each  *)
(* card or a failure.  BM25 is computed in integers from the logarithms in  *)
(* micros for corpora of up to three cards; the code computes in 50 digits  *)
(* and rounds once, so the two can only differ in the last micro.           *)
(***************************************************************************)
EXTENDS Naturals, Sequences, FiniteSetsExt

CONSTANTS
  Library,     \* cards: [site, line, from, until, revoked, words, len, version]
  Size,        \* the number of cards of a store, at most 3
  Queries,     \* [site, line, at, words, limit]
  Embeddings   \* [ok, score]: scores by position, or none when it failed

VARIABLES
  store,      \* the cards of the store, in its order
  query,
  embedding,  \* what the adapter answers
  selected    \* the positions that were retrieved, best first; <<0>> before

vars == <<store, query, embedding, selected>>

Any == "any"
Never == 0
Scale == 1000000

-----------------------------------------------------------------------------
(* The gates *)

\* _scope_rejection, by the processing time of the query
Eligible(c, q) ==
  /\ c.site = q.site
  /\ c.line # Any => c.line = q.line
  /\ ~c.revoked
  /\ q.at >= c.from
  /\ c.until # Never => q.at < c.until

EligibleOf(s, q) == {n \in DOMAIN s : Eligible(s[n], q)}

-----------------------------------------------------------------------------
(* The channels: a score by position, of the eligible cards *)

SumOver(f, S) == MapThenSumSet(LAMBDA w : f[w], S)

\* How long the cards at some positions are together.
Characters(s, corpus) == Cardinality(UNION {{m} \X (1 .. s[m].len) : m \in corpus})

Words(c) == {w \in DOMAIN c.words : c.words[w] > 0}

KeywordScore(s, q, n) == Cardinality(q.words \cap Words(s[n])) * Scale

\* 10^6 ln(1 + (count - df + 1/2) / (df + 1/2))
Idf == <<<<287682>>, <<693147, 182322>>, <<980829, 470004, 133531>>>>

\* Mutant of Bm25Corpus: the statistics are those of the whole store.
Bm25CorpusAll(s, q) == DOMAIN s

\* The documents whose counts and lengths the scores depend on.
Bm25Corpus(s, q) == EligibleOf(s, q)

\* k1 = 1.2, b = 0.75
Bm25Term(c, w, count, total, df) ==
  LET tf == c.words[w]
  IN  (Idf[count][df] * 22 * tf * total) \div ((10 * tf + 3) * total + 9 * c.len * count)

Bm25Score(s, q, n) ==
  LET corpus == Bm25Corpus(s, q)
      count == Cardinality(corpus)
      total == Characters(s, corpus)
      words == q.words \cap Words(s[n])
      df == [w \in words |-> Cardinality({m \in corpus : w \in Words(s[m])})]
  IN  SumOver([w \in words |-> Bm25Term(s[n], w, count, total, df[w])], words)

\* The n-grams of a card; a repeated word counts once.
Distinct(c) == c.len - SumOver([w \in Words(c) |-> c.words[w] - 1], Words(c))

\* The Jaccard index of the n-gram sets.
NgramScore(s, q, n) ==
  LET overlap == Cardinality(q.words \cap Words(s[n]))
  IN  (overlap * Scale) \div (Cardinality(q.words) + Distinct(s[n]) - overlap)

Lexical == {"keyword", "bm25", "ngram"}

\* A failed or a missing adapter leaves the channel out of the fusion.
Channels(e) == IF e.ok THEN Lexical \cup {"embedding"} ELSE Lexical

Score(ch, s, q, e, n) ==
  CASE ch = "keyword"   -> KeywordScore(s, q, n)
    [] ch = "bm25"      -> Bm25Score(s, q, n)
    [] ch = "ngram"     -> NgramScore(s, q, n)
    [] ch = "embedding" -> e.score[n]

-----------------------------------------------------------------------------
(* Ranks and their fusion *)

\* _rank_positive_scores: by score, version, digest
Precedes(s, score, m, n) ==
  \/ score[m] > score[n]
  \/ score[m] = score[n] /\ s[m].version > s[n].version
  \/ score[m] = score[n] /\ s[m].version = s[n].version /\ m < n

ScoresOf(s, q, e, ch) == [m \in EligibleOf(s, q) |-> Score(ch, s, q, e, m)]

\* The rank of n among the scores of a channel; 0 when it does not have it.
RankIn(s, score, n) ==
  IF score[n] = 0 THEN 0
  ELSE 1 + Cardinality({m \in DOMAIN score : Precedes(s, score, m, n)})

\* Mutant of Rank: a channel hands on as many cards as the query asks for.
RankOfFirst(s, q, e, ch, n) ==
  LET rank == RankIn(s, ScoresOf(s, q, e, ch), n) IN IF rank > q.limit THEN 0 ELSE rank

Rank(s, q, e, ch, n) == RankIn(s, ScoresOf(s, q, e, ch), n)

Weight == [keyword |-> 2, bm25 |-> 4, ngram |-> 3, embedding |-> 4]

\* Mutant of Share: a card a channel does not have is ranked before its first.
ShareOfMissing(ch, rank) == (Weight[ch] * 61 * 62 * 63) \div (60 + rank)

\* weight / (60 + rank), over the common denominator 61 * 62 * 63.
Share(ch, rank) ==
  IF rank = 0 THEN 0 ELSE (Weight[ch] * 61 * 62 * 63) \div (60 + rank)

\* The sum over the channels there are.
Fusion(s, q, e, n) ==
  LET share == [ch \in Channels(e) |-> Share(ch, Rank(s, q, e, ch, n))]
  IN  share["keyword"] + share["bm25"] + share["ngram"] + (IF e.ok THEN share["embedding"] ELSE 0)

Specificity(c) == IF c.line = Any THEN 0 ELSE 1

FusedBefore(s, fused, m, n) ==
  \/ fused[m] > fused[n]
  \/ /\ fused[m] = fused[n]
     /\ \/ Specificity(s[m]) > Specificity(s[n])
        \/ /\ Specificity(s[m]) = Specificity(s[n])
           /\ Precedes(s, fused, m, n)

\* The relevant cards, best first.
InOrder(s, fused, relevant) ==
  [k \in 1 .. Cardinality(relevant) |->
     CHOOSE n \in relevant :
       Cardinality({m \in relevant : FusedBefore(s, fused, m, n)}) = k - 1]

FusedOrder(s, fused) == InOrder(s, fused, {n \in DOMAIN fused : fused[n] > 0})

FirstOf(order, limit) == SubSeq(order, 1, IF limit < Len(order) THEN limit ELSE Len(order))

Retrieved(s, q, e) ==
  FirstOf(FusedOrder(s, [n \in EligibleOf(s, q) |-> Fusion(s, q, e, n)]), q.limit)

-----------------------------------------------------------------------------
NotYet == <<0>>

Init ==
  /\ store \in [1 .. Size -> Library]
  /\ query \in Queries
  /\ embedding \in Embeddings
  /\ selected = NotYet

Retrieve ==
  /\ selected = NotYet
  /\ selected' = Retrieved(store, query, embedding)
  /\ UNCHANGED <<store, query, embedding>>

Next == Retrieve

Spec == Init /\ [][Next]_vars

-----------------------------------------------------------------------------
(* Properties *)

Done == selected # NotYet

\* A card the gates refuse leaves no trace in what is retrieved: without it
\* the same cards come in the same order.
RefusedLeaveNoTrace ==
  Done => \A n \in DOMAIN store : ~Eligible(store[n], query) =>
    LET without == [m \in 1 .. Size - 1 |-> IF m < n THEN store[m] ELSE store[m + 1]]
        moved == [m \in 1 .. Size - 1 |-> IF m < n THEN m ELSE m + 1]
        scores == IF embedding.ok
                  THEN [ok |-> TRUE, score |-> [m \in 1 .. Size - 1 |-> embedding.score[moved[m]]]]
                  ELSE embedding
        answer == Retrieved(without, query, scores)
    IN  selected = [k \in DOMAIN answer |-> moved[answer[k]]]

\* A larger limit only adds cards at the end.
LimitOnlyCuts ==
  Done => LET more == Retrieved(store, [query EXCEPT !.limit = @ + 1], embedding)
          IN  Len(selected) <= Len(more) /\ selected = SubSeq(more, 1, Len(selected))

\* A card that every channel ranks before another comes before it, whatever
\* the weights; one that no channel knows does not come at all.
UnanimousFirst ==
  Done => \A k \in DOMAIN selected : \A n \in EligibleOf(store, query) :
    LET R(ch, m) == Rank(store, query, embedding, ch, m) IN
    /\ (\A ch \in Channels(embedding) :
          R(ch, n) > 0 /\ (R(ch, selected[k]) = 0 \/ R(ch, n) < R(ch, selected[k])))
         => \E j \in 1 .. k - 1 : selected[j] = n
    /\ \E ch \in Channels(embedding) : R(ch, selected[k]) > 0
=============================================================================
