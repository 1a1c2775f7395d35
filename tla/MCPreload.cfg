\* Two handlers, a worker and a request over two movies and one queue place.
SPECIFICATION Spec
CONSTANTS
    p1 = p1
    p2 = p2
    s1 = s1
    s2 = s2
    Paths <- TwoMovies
    Movies <- TwoMovies
    Sources <- TwoMovieSources
    PathOf <- TwoMoviePathOf
    Callers = {k1, k2}
    Workers = {w1}
    Requests = {q1}
    Chans = {c1, c2, c3}
    NoChan = NoChan
    NoSource = NoSource
    HighCap = 1
    NormalCap = 1
SYMMETRY Symmetry
VIEW LiveView
INVARIANTS
    OneTaskPerPath
    CloseOnce
    WaiterNotStranded
CHECK_DEADLOCK FALSE
