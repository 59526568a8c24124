-------------------------------- MODULE Front --------------------------------
(***************************************************************************)
(* The HTTP server in front of the routes (buildServer of                  *)
(* src/http/server.ts) under a configuration (loadConfig of                *)
(* src/config/index.ts): which hosts may say on whose behalf they call,    *)
(* whose budget a request is charged to, which status and text an error    *)
(* leaves with, what is written to the log (src/http/logging.ts), and the  *)
(* routes that depend on an optional upstream (src/http/routes/media.ts).  *)
(*                                                                         *)
(* A text is abstracted to the identifiers in it and how each is spelled.  The limiter and the     *)
(* walk over X-Forwarded-For are libraries, modelled as the options given  *)
(* to them make them work.                                                 *)
(***************************************************************************)
EXTENDS Integers, Sequences, SequencesExt, FiniteSets

-----------------------------------------------------------------------------
(* The configuration of the process.  An address is a sequence of bits,     *)
(* shorter than the real ones: IPv4 has V4Bits, and IPv6 has as many behind *)
(* the prefix of the IPv4-mapped block.                                     *)

CONSTANTS
    V4Bits,           \* bits of an IPv4 address (32)
    MappedPrefix,     \* the bits before the IPv4-mapped block (the 96 of ::ffff:0:0)
    MinTrustedPrefix, \* MIN_TRUSTED_PREFIX
    NoPrefix          \* an entry without a slash

Bit == {0, 1}

V4 == [1..V4Bits -> Bit]

V6Bits == Len(MappedPrefix) + V4Bits

V6 == [1..V6Bits -> Bit]

ConfigurationConstants ==
    /\ V4Bits \in Nat /\ MinTrustedPrefix \in 1..V4Bits
    /\ MappedPrefix \in Seq(Bit) /\ Len(MappedPrefix) > MinTrustedPrefix
    /\ NoPrefix \notin Nat

\* An entry of TRUST_PROXY as it is written; a prefix may be too long.
Entries ==
    [family : {4}, address : V4, prefix : {NoPrefix} \cup 0..(V4Bits + 1)]
    \cup
    [family : {6}, address : V6, prefix : {NoPrefix} \cup 0..(V6Bits + 1)]

Bits(entry) == IF entry.family = 4 THEN V4Bits ELSE V6Bits

sharesPrefix(left, right, bits) == \A i \in 1..bits : left[i] = right[i]

-----------------------------------------------------------------------------
(* parseTrustedProxies.                                                     *)

Width(entry) == IF entry.prefix = NoPrefix THEN Bits(entry) ELSE entry.prefix

\* The range holds the whole mapped block, and so every IPv4 caller.
HoldsMapped(entry) ==
    /\ entry.family = 6
    /\ Width(entry) <= Len(MappedPrefix)
    /\ sharesPrefix(entry.address, MappedPrefix, Width(entry))

\* The range is within the mapped block: an IPv4 range.
IsMapped(entry) ==
    /\ entry.family = 6
    /\ Width(entry) > Len(MappedPrefix)
    /\ sharesPrefix(entry.address, MappedPrefix, Len(MappedPrefix))

\* The entry as it is recorded.
Recorded(entry) ==
    IF ~IsMapped(entry) THEN entry
    ELSE [family |-> 4,
          address |-> SubSeq(entry.address, Len(MappedPrefix) + 1, V6Bits),
          prefix |-> IF entry.prefix = NoPrefix THEN NoPrefix
                     ELSE entry.prefix - Len(MappedPrefix)]

TooLong(entry) == entry.prefix # NoPrefix /\ entry.prefix > Bits(entry)

Short(prefix) == prefix # NoPrefix /\ prefix < MinTrustedPrefix

\* Mutation: the floor is for the entry as it is written.
RejectsAsWritten(entry) == TooLong(entry) \/ HoldsMapped(entry) \/ Short(entry.prefix)

\* Mutation: only the width counts, whatever the range holds.
RejectsByWidth(entry) == TooLong(entry) \/ Short(Recorded(entry).prefix)

Rejects(entry) == TooLong(entry) \/ HoldsMapped(entry) \/ Short(Recorded(entry).prefix)

\* Which IPv4 callers a range matches (external: proxy-addr).  One in the other
\* notation is compared in its IPv4-mapped form.
Matches(entry, caller) ==
    IF entry.family = 4 THEN sharesPrefix(entry.address, caller, Width(entry))
    ELSE sharesPrefix(entry.address, MappedPrefix \o caller, Width(entry))

-----------------------------------------------------------------------------
(* loadConfig.  An environment says, of each optional upstream, what is set *)
(* of its credential.                                                       *)

Environments ==
    [provider : {"koios", "blockfrost"}, projectId : {"unset", "blank", "set"},
     nftcdnSubdomain : BOOLEAN, nftcdnKey : {"unset", "malformed", "set"},
     rateLimitMax : Nat, configUrl : {"", "default", "padded"},
     trustProxy : SUBSET Entries]

\* Mutation: a credential that is only spaces is one.
CompleteUntrimmed(env) ==
    /\ env.nftcdnSubdomain = (env.nftcdnKey # "unset")
    /\ env.provider = "blockfrost" => env.projectId # "unset"

\* Half of a credential is a mistake, and so is a driver without its own.
Complete(env) ==
    /\ env.nftcdnSubdomain = (env.nftcdnKey # "unset")
    /\ env.provider = "blockfrost" => env.projectId = "set"

\* Each value is one on its own.
WellFormed(env) == env.nftcdnKey # "malformed" /\ env.configUrl # "padded"

\* The process starts with these settings or not at all.
Loads(env) ==
    /\ WellFormed(env) /\ Complete(env)
    /\ \A entry \in env.trustProxy : ~Rejects(entry)

\* What the process runs with.
loadConfig(env) ==
    [provider |-> env.provider, projectId |-> env.projectId = "set",
     nftcdn |-> env.nftcdnKey = "set", configUrl |-> env.configUrl # "",
     rateLimit |-> env.rateLimitMax, trusted |-> {Recorded(entry) : entry \in env.trustProxy}]

-----------------------------------------------------------------------------
(* The identifiers in a text.                                               *)

\* What identifies a wallet: stake and payment addresses, transactions, and the
\* base58 addresses of Byron.
Wallet == {"stake", "addr", "hash", "byron"}

\* An identifier as a text spells it: the head before the 1 of bech32, its
\* alphabet, the characters behind the head, whether isByronAddress decodes it,
\* and the sides on which it runs into another word.
Spelled(what, head, alphabet, sizes, decodes) ==
    [what : {what}, head : {head}, alphabet : {alphabet}, size : sizes, decodes : {decodes},
     glued : SUBSET {"before", "after"}]

\* The alphabets and sizes of 29 and more bytes in bech32, of 32 bytes in hex, of
\* 39 and more in base58; and a DRep id, which is public, of legal base58.
Identifiers ==
    Spelled("stake", "stake", "bech32", {53}, FALSE)
    \cup Spelled("addr", "addr", "bech32", 53..103, FALSE)
    \cup Spelled("hash", "", "hex", {64}, FALSE)
    \cup Spelled("byron", "", "base58", 50..200, TRUE)
    \cup Spelled("drep", "", "base58", {57}, FALSE)

\* The patterns of a whole segment.
STAKE_ADDRESS(word) == word.head = "stake" /\ word.size >= 1
TX_HASH(word) == word.alphabet = "hex" /\ word.size = 64

\* Those of free text.  A bech32 word may run on, a hash or base58 word may not.
WALLET_BECH32(word) ==
    word.head \in {"stake", "addr"} /\ word.size >= 20 /\ "before" \notin word.glued

HASH_HEX(word) == TX_HASH(word) /\ word.glued = {}

\* Mutation: the length of the addresses of one kind of wallet.
BYRON_CANDIDATE_long(word) ==
    word.alphabet = "base58" /\ word.size >= 60 /\ word.glued = {}

BYRON_CANDIDATE(word) == word.alphabet = "base58" /\ word.size >= 40 /\ word.glued = {}

\* Mutation: only what has a prefix or a fixed length is found.
scrubMessageByShape(text) == {word \in text : ~WALLET_BECH32(word) /\ ~HASH_HEX(word)}

\* What is left of a text.
scrubMessage(text) ==
    {word \in text : /\ ~WALLET_BECH32(word) /\ ~HASH_HEX(word)
                     /\ ~(BYRON_CANDIDATE(word) /\ word.decodes)}

-----------------------------------------------------------------------------
(* The server.                                                              *)

CONSTANTS
    Envs,         \* the environments the process may be started in
    Proxy,        \* the host in front of the service, if there is one
    People,       \* callers of the service
    Claims,       \* what a caller may write into X-Forwarded-For
    Words,        \* bound: identifiers in a text or a URL
    NFTCDN_SIZES, \* sizes of an image
    Wanted        \* bound: sizes asked for

\* Nothing is written into it.
Nobody == <<>>

FrontConstants ==
    /\ ConfigurationConstants
    /\ Envs # {} /\ Envs \subseteq Environments
    /\ {Proxy} \cup People \cup Claims \subseteq V4 /\ Proxy \notin People
    /\ Words \subseteq Identifiers
    /\ NFTCDN_SIZES # {} /\ NFTCDN_SIZES \subseteq Nat /\ Wanted \subseteq Nat \ {0}

VARIABLES
    env,       \* the environment
    current,   \* current[ip]: the limiter's count of ip's window
    admitted,  \* admitted[c]: the requests of c let in since c's window began
    reply,     \* the last reply
    logged     \* what the last request and its retries left in the log

frontVars == <<env, current, admitted, reply, logged>>

config == loadConfig(env)

-----------------------------------------------------------------------------
(* Who is calling.                                                          *)

Trusted(ip) == \E entry \in config.trusted : Matches(entry, ip)

\* Mutation: any host is believed.
ipBelieved(hops) == Last(hops)

\* The first hop, from the socket on, that is not trusted, or the last of all
\* (external: Fastify's trustProxy).
ip(hops) ==
    LET n == CHOOSE i \in DOMAIN hops :
                 /\ i = Len(hops) \/ ~Trusted(hops[i])
                 /\ \A j \in 1..(i - 1) : Trusted(hops[j])
    IN hops[n]

\* The hops of a request of c, the socket first: c's own claim is furthest.
Hops(c, proxied, claim) ==
    (IF proxied THEN <<Proxy, c>> ELSE <<c>>) \o (IF claim = Nobody THEN <<>> ELSE <<claim>>)

\* The operator who puts a proxy in front names it.
Named == \E entry \in env.trustProxy : Matches(entry, Proxy)

-----------------------------------------------------------------------------
(* What leaves the process.                                                 *)

MAX_DECODE_PASSES == 3

\* A path segment: a word encoded so many times, and the text beside it: none,
\* some, a percent sign that is no escape, or an escape that does not decode.
Segments ==
    [word : Words, layers : 0..(MAX_DECODE_PASSES + 1), beside : {"none", "text", "stray", "broken"}]

\* The identifier is all there is in the segment.
Whole(segment) == segment.beside = "none" /\ segment.word.glued = {}

\* A pass finds nothing left to undo, decodes, or throws.
Bare(segment, pass) == segment.layers < pass

Throws(segment, pass) == Bare(segment, pass) /\ segment.beside \in {"stray", "broken"}

\* Mutation: a segment is looked at before it is decoded.
IdentifiesBefore(segment, pass) ==
    Bare(segment, pass) /\ Whole(segment) /\ (STAKE_ADDRESS(segment.word) \/ TX_HASH(segment.word))

\* After it the segment is what is looked for.
Identifies(segment, pass) ==
    Bare(segment, pass + 1) /\ Whole(segment) /\ (STAKE_ADDRESS(segment.word) \/ TX_HASH(segment.word))

\* After it there are escapes.
Escapes(segment, pass) == ~Bare(segment, pass + 1) \/ segment.beside = "broken"

\* A segment is kept by the first pass without more escapes, unless that pass or
\* one before it throws or finds an identifier.
Kept(segment) ==
    \E last \in 1..MAX_DECODE_PASSES :
        /\ ~Escapes(segment, last)
        /\ \A pass \in 1..last : ~Throws(segment, pass) /\ ~Identifies(segment, pass)

\* Lines of the log, each with where it shows the word.
Lines(from, words) == [from : {from}, word : words]

\* The line of a request: its segments scrubbed, its query as it is.
scrubPath(segment, query) ==
    Lines("query", query)
    \cup IF Kept(segment)
         THEN Lines(IF Whole(segment) THEN "segment" ELSE "part", {segment.word}) ELSE {}

-----------------------------------------------------------------------------
(* Replies.                                                                 *)

Reply(status, code, text) == [status |-> status, code |-> code, text |-> text, image |-> 0, wanted |-> 0]

\* Mutation: rounded down.
snapSizeDown(wanted) ==
    LET fits == {size \in NFTCDN_SIZES : size <= wanted}
    IN IF fits = {} THEN 32 ELSE CHOOSE size \in fits : \A other \in fits : other <= size

\* The smallest size that is large enough, or the largest there is.
snapSize(wanted) ==
    LET fits == {size \in NFTCDN_SIZES : size >= wanted}
    IN IF fits = {} THEN CHOOSE size \in NFTCDN_SIZES : \A other \in NFTCDN_SIZES : other <= size
       ELSE CHOOSE size \in fits : \A other \in fits : size <= other

\* What a handler may end with besides an answer: an error of ours, or one of
\* Fastify's with a status of 4xx.
Errors(text) ==
    {Reply(502, "UPSTREAM_ERROR", scrubMessage(text)), Reply(504, "UPSTREAM_TIMEOUT", scrubMessage(text)),
     Reply(502, "UPSTREAM_MALFORMED", scrubMessage(text)), Reply(400, "BAD_REQUEST", scrubMessage(text)),
     Reply(501, "NOT_IMPLEMENTED", {})}

Unavailable == Reply(503, "FEATURE_UNAVAILABLE", {})

Answered == Reply(200, "", {})

\* A text names two identifiers at most: each is looked at on its own.
Texts == {{}} \cup {{word, other} : word \in Words, other \in Words}

\* A failed attempt is retried, and logged; then the handler ends.
Reads ==
    \E text \in Texts :
        /\ reply' \in {Answered} \cup Errors(text)
        /\ logged' \in {{}, Lines("retry", scrubMessage(text))}

\* Any other error is a bug: it is logged as it is, and stays inside.
Bug ==
    /\ reply' = Reply(500, "INTERNAL", {})
    /\ \E text \in Texts : logged' = Lines("bug", text)

\* What stands behind the question mark: nothing, or anything.
Queries == {{}, Words}

\* The escapes of a URL, undone once, do not decode: it reaches no route.
BadUrl(segment) == Throws(segment, 1)

\* A route has this URL.
NamesAWallet ==
    \E segment \in Segments, query \in Queries :
        /\ ~BadUrl(segment)
        /\ reply' \in {Answered, Reply(400, "BAD_REQUEST", {})}
        /\ logged' = scrubPath(segment, query)

\* An image: the size that is said is the size in the URL.
Media ==
    /\ IF config.nftcdn
       THEN \/ reply' = Reply(400, "BAD_REQUEST", {})
            \/ \E wanted \in Wanted :
                   reply' = [Answered EXCEPT !.image = snapSize(wanted), !.wanted = wanted]
       ELSE reply' = Unavailable
    /\ logged' = {}

Config ==
    /\ reply' = IF config.configUrl THEN Answered ELSE Unavailable
    /\ logged' = {}

-----------------------------------------------------------------------------
(* Requests.                                                                *)

Limited == config.rateLimit > 0

\* What the last request left has been looked at.
Read == reply = Answered /\ logged = {}

\* A request to a route: refused when its budget is spent, let in otherwise.
Requests(c, proxied, claim) ==
    LET key == ip(Hops(c, proxied, claim)) IN
    \/ /\ Limited /\ current[key] >= config.rateLimit
       /\ reply' = Reply(429, "RATE_LIMITED", {}) /\ logged' = {}
       /\ UNCHANGED <<current, admitted>>
    \/ /\ Limited => current[key] < config.rateLimit
       /\ current' = IF Limited THEN [current EXCEPT ![key] = @ + 1] ELSE current
       /\ admitted' = IF Limited THEN [admitted EXCEPT ![c] = @ + 1] ELSE admitted
       /\ Reads \/ Bug \/ NamesAWallet \/ Media \/ Config

\* The probe of the orchestrator is answered whatever was spent.
Health ==
    /\ reply' = Answered /\ logged' = {}
    /\ UNCHANGED <<current, admitted>>

\* No route has this URL: it is told back as it came, and is nobody's budget.
NotFound ==
    /\ \E segment \in Segments, query \in Queries :
           /\ ~BadUrl(segment)
           /\ reply' = Reply(404, "NOT_FOUND", {segment.word} \cup query)
           /\ logged' = scrubPath(segment, query)
    /\ UNCHANGED <<current, admitted>>

\* One that does not decode is told back by the framework itself, before the
\* limiter and the error handler (external: Fastify).
BadUrls ==
    /\ \E segment \in Segments, query \in Queries :
           /\ BadUrl(segment)
           /\ reply' = Reply(400, "FST_ERR_BAD_URL", {segment.word} \cup query)
           /\ logged' \in {{}, scrubPath(segment, query)}
    /\ UNCHANGED <<current, admitted>>

\* The window of an address is over (external: @fastify/rate-limit).
WindowEnds(key) ==
    /\ current[key] > 0
    /\ current' = [current EXCEPT ![key] = 0]
    /\ admitted' = [c \in People |-> IF c = key THEN 0 ELSE admitted[c]]
    /\ UNCHANGED <<reply, logged>>

FrontStart ==
    /\ current = [key \in {Proxy} \cup People \cup Claims |-> 0]
    /\ admitted = [c \in People |-> 0]
    /\ reply = Answered /\ logged = {}

FrontInit == env \in Envs /\ FrontStart

\* A process whose configuration is refused does not start.
FrontNext ==
    /\ Loads(env)
    /\ \/ /\ Read
          /\ \/ \E c \in People, proxied \in {FALSE} \cup {Named}, claim \in {Nobody} \cup Claims :
                    Requests(c, proxied, claim)
             \/ NotFound \/ BadUrls
       \/ Health
       \/ \E key \in DOMAIN current : WindowEnds(key)
    /\ UNCHANGED env

-----------------------------------------------------------------------------
(* Properties.                                                              *)

TypeOK ==
    /\ env \in Envs
    /\ \A key \in DOMAIN current : current[key] \in Nat
    /\ reply.text \subseteq Words
    /\ \A line \in logged :
           line.word \in Words /\ line.from \in {"segment", "part", "query", "retry", "bug"}

\* No accepted entry of TRUST_PROXY, however it is spelled, trusts an IPv4
\* caller it does not name or more of them than the narrowest range allowed.
TrustIsAsWritten ==
    Loads(env) => \A entry \in env.trustProxy :
        LET trusted == {caller \in V4 : Matches(Recorded(entry), caller)}
        IN /\ trusted = {caller \in V4 : Matches(entry, caller)}
           /\ Cardinality(trusted) <= 2 ^ (V4Bits - MinTrustedPrefix)

\* The entry is a range of IPv4 addresses, in either notation, and c is in it.
Names(entry, c) == Matches(entry, c) /\ (entry.family = 6 => IsMapped(entry))

\* A caller whom no entry of TRUST_PROXY names has one budget: whatever it claims
\* to be, it gets no more than its own, and is refused only when it spent that.
OneBudgetPerCaller ==
    (Loads(env) /\ Limited /\ \A c \in People, entry \in env.trustProxy : ~Names(entry, c)) =>
        \A c \in People : admitted[c] <= config.rateLimit /\ current[c] = admitted[c]

\* The word identifies a wallet and stands between other characters than those
\* of a word.
Personal(word) == word.what \in Wallet /\ word.glued = {}

\* No error tells an identifier that stands alone, but for the two that repeat the
\* URL they were sent; nor does the line of a retry.  The line of a request shows
\* no stake address and no transaction that is a whole segment of the path,
\* however it is encoded; a payment or Byron address there, one with other text
\* beside it, and the query are shown.  The body of an internal error names
\* nothing; its line is not scrubbed.
NothingPersonalLeaves ==
    /\ reply.code \notin {"NOT_FOUND", "FST_ERR_BAD_URL"} => \A word \in reply.text : ~Personal(word)
    /\ \A line \in logged :
           /\ line.from = "retry" => ~Personal(line.word)
           /\ line.from = "segment" => line.word.what \notin {"stake", "hash"}
    /\ reply.code = "INTERNAL" => reply.text = {}

\* A process that runs has every credential it needs, and an optional upstream
\* is missing only where none of its settings is there; an image is never
\* smaller than what was asked for, if there is one that large.
ServesWhatItHas ==
    /\ Loads(env) => /\ config.provider = "blockfrost" => config.projectId
                     /\ ~config.nftcdn => ~env.nftcdnSubdomain
    /\ reply.code = "FEATURE_UNAVAILABLE" => ~config.nftcdn \/ ~config.configUrl
    /\ reply.image # 0 =>
          /\ reply.image \in NFTCDN_SIZES
          /\ \A size \in NFTCDN_SIZES : size >= reply.wanted => reply.image >= reply.wanted
=============================================================================
