-------------------------- MODULE ProviderRegistry --------------------------
(***************************************************************************)
(* internal/provider/registry.go, and the routing of internal/proxy that   *)
(* rests on it.  A host is the set of the providers' domains that its name *)
(* contains: all that DetectProvider looks at, whatever the case of the    *)
(* name and the port.  A loopback address, or any other host, is {}.       *)
(***************************************************************************)
EXTENDS Integers

Domains == {"openai.com", "anthropic.com", "googleapis.com"}

DetectProvider(host) ==
    IF "openai.com" \in host THEN "openai"
    ELSE IF "anthropic.com" \in host THEN "anthropic"
    ELSE IF "googleapis.com" \in host THEN "google" ELSE "unknown"

\* The estimate for a request that does not say max_tokens.
DefaultMaxTokens(provider) == CASE provider = "anthropic" -> 8192
                                [] provider = "google" -> 2048
                                [] OTHER -> 4096

\* Does the parser that GetParser returns, if any, parse a whole body?
\* Google's is not implemented.
ParsesUsage(provider) == provider \in {"openai", "anthropic"}

\* Does the handler put a parser on the event stream it is answered with?
ExtractsSSE(s, provider, streaming) ==
    streaming /\ s.sse /\ provider \in {"openai", "anthropic"}

\* resolveUpstream returns a URL: the provider's, or, for no known provider,
\* the one the request itself carries in absolute form.
resolveUpstream(s, host, absolute) ==
    \/ DetectProvider(host) \in s.upstreams
    \/ DetectProvider(host) = "unknown" /\ absolute
=============================================================================
