-------------------------------- MODULE Outgoing --------------------------------
(***************************************************************************)
(* What setupOutgoing and addForwardedHeaders make of the client's request *)
(* for one instance: the headers that name a host, and the path.           *)
(***************************************************************************)
EXTENDS Integers, Sequences, SequencesExt

CONSTANTS Letter,    \* the characters of a path other than "/"
          MaxPath    \* the longest path of a request

ASSUME OutgoingAssumption == "/" \notin Letter /\ MaxPath \in Nat \ {0}

-----------------------------------------------------------------------------
(* The two headers: whose host they name, an instance's or the one the     *)
(* client asked for.                                                       *)

Absent == -1
Client == 0

ClientHead == [host |-> Client, forwardedHost |-> Absent]

\* addForwardedHeaders: x-forwarded-host is set once, from the host header.
Forwarded(h) ==
    IF h.forwardedHost = Absent THEN [h EXCEPT !.forwardedHost = h.host] ELSE h

\* setupOutgoing with changeOrigin; its headers are req.headers themselves.
ChangedOrigin(k, h) == [h EXCEPT !.host = k]

\* A slip: the origin is changed before the client's host is saved.
OutgoingHeadSwapped(k, h, xfwd, changeOrigin) ==
    LET changed == IF changeOrigin THEN ChangedOrigin(k, h) ELSE h
    IN  IF xfwd THEN Forwarded(changed) ELSE changed

\* handleProxy, then streamRequest.
OutgoingHead(k, h, xfwd, changeOrigin) ==
    LET forwarded == IF xfwd THEN Forwarded(h) ELSE h
    IN  IF changeOrigin THEN ChangedOrigin(k, forwarded) ELSE forwarded

-----------------------------------------------------------------------------
(* The path, as the sequence of its characters. *)

Character == Letter \cup {"/"}

\* The paths of requests: a request line's path begins with a slash.
RequestPaths == {p \in SeqOf(Character, MaxPath) : IsPrefix(<<"/">>, p)}


\* rewritePath with a rule "^prefix": replacement, the form all examples have.
RewritePath(path, rule) ==
    IF IsPrefix(rule.prefix, path)
    THEN rule.replacement \o SubSeq(path, Len(rule.prefix) + 1, Len(path))
    ELSE path

\* From the first character that is not (or that is) a slash.
Unslashed(path) ==
    LET first == SelectInSeq(path, LAMBDA c : c # "/")
    IN  IF first = 0 THEN << >> ELSE SubSeq(path, first, Len(path))

FromSlash(path) ==
    LET first == SelectInSeq(path, LAMBDA c : c = "/")
    IN  IF first = 0 THEN <<"/">> ELSE SubSeq(path, first, Len(path))

NamesHost(path) == IsPrefix(<<"/", "/">>, path)

\* new URL(path, "http://localhost") throws: a host is announced, none follows.
\* The attempt is then Invalid (module HttpProxy), or fails while it is set up
\* (module WsProxy).
Unparsable(path) == NamesHost(path) /\ Unslashed(path) = << >>

\* Its pathname otherwise: two slashes announce a host, which is cut off.
Pathname(path) ==
    CASE NamesHost(path) /\ ~Unparsable(path) -> FromSlash(Unslashed(path))
      [] IsPrefix(<<"/">>, path) /\ ~NamesHost(path) -> path
      [] ~IsPrefix(<<"/">>, path) -> <<"/">> \o path

\* Runs of slashes become one.
Squeezed(path) ==
    FoldLeft(LAMBDA done, c : IF c = "/" /\ IsSuffix(<<"/">>, done) THEN done ELSE Append(done, c),
             << >>, path)

\* joinPaths leaves out what is empty.
JoinPaths(base, path) == Squeezed(IF base = << >> THEN path ELSE base \o <<"/">> \o path)

\* buildPath, after rewritePath.
BuildPath(base, path, rule) == JoinPaths(base, Pathname(RewritePath(path, rule)))

-----------------------------------------------------------------------------
\* Rules and target paths to start from: prefixes end within a request's path.
Rules == [prefix : RequestPaths, replacement : SeqOf(Character, 2)]

Bases == {<< >>, <<"/">>} \cup {<<"/", c>> : c \in Letter}

Letters(path) ==
    FoldLeft(LAMBDA kept, c : IF c = "/" THEN kept ELSE Append(kept, c), << >>, path)

\* An instance is asked for the target's path and then for text, in this order
\* and with single slashes.
Arrives(base, rule, rest, text) ==
    LET path == BuildPath(base, rule.prefix \o rest, rule)
    IN  /\ Letters(path) = Letters(base \o text)
        /\ \A i \in 2 .. Len(path) : path[i] # "/" \/ path[i - 1] # "/"
        /\ IsPrefix(<<"/">>, path)

\* What the rule puts in place of the prefix and what follows it arrive whole.
Kept(base, rule, rest) == Arrives(base, rule, rest, rule.replacement \o rest)

\* The first n characters are slashes and the host that they announce.
HostEnds(path, n) ==
    /\ NamesHost(path)
    /\ path[n] # "/" /\ (n < Len(path) => path[n + 1] = "/")
    /\ \A i, j \in 1 .. n : i < j /\ path[j] = "/" => path[i] = "/"

\* They arrive without their first part, which is taken for a host.
HostCut(base, rule, rest) ==
    LET path == rule.replacement \o rest
    IN  \E n \in 1 .. Len(path) :
            HostEnds(path, n) /\ Arrives(base, rule, rest, SubSeq(path, n + 1, Len(path)))

\* The requests whose path arrives in another form than these two.
Garbled ==
    {r \in [base : Bases, rule : Rules, rest : SeqOf(Character, 2)] :
        LET path == RewritePath(r.rule.prefix \o r.rest, r.rule)
        IN  /\ ~Unparsable(path)
            /\ IF NamesHost(path) THEN ~HostCut(r.base, r.rule, r.rest)
                                  ELSE ~Kept(r.base, r.rule, r.rest)}

=============================================================================
