CONSTANTS
    c1 = c1
    c2 = c2
    thread_count = 2
    Conns = {n1}
    Controllers = {c1, c2}
    Requests <- MCRequests
    RoutesOf <- MCRoutesOf
    Registrations <- MCRegistrations
    MaxAdds = 2
    MaxRequests = 2
    MaxStarts = 1
    MaxAwaits = 1
    RegexMatches <- MCRegexMatches
    Captures <- MCCaptures
    tolower <- Mctolower
    StringTo <- MCStringTo
SPECIFICATION Spec
INVARIANTS RoutedRight ContextFaithful RequestsAccounted ControllersAlive
PROPERTIES StopReturns RequestServed
