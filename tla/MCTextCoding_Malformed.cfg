INIT Init
NEXT Next
INVARIANT MalformedBecomesReplacement
