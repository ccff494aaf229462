----------------------------- MODULE MCStpFrames -----------------------------
EXTENDS StpFrames

\* A payload, and one with a byte like a delimiter: an address may have one, but
\* the last bytes of a message are the high byte of an address or small values.
MCPayloads == {<<9>>, <<D, 9>>}

\* Each direction with a damage; both of them and two connections without.
MCBudgets == {[toHost |-> 2, toTarget |-> 0, damages |-> 1, opened |-> 1],
              [toHost |-> 0, toTarget |-> 3, damages |-> 1, opened |-> 1],
              [toHost |-> 1, toTarget |-> 1, damages |-> 0, opened |-> 2]}
=============================================================================
