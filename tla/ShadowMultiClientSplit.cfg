\* Two clients and a server that publishes and waits in two calls.
SPECIFICATION SplitSpec
CONSTANT Clients = {c1, c2}
INVARIANT ServerWaitsForAll
