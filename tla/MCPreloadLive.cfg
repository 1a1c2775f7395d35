\* A movie and an episode: every claimed path is given back.
SPECIFICATION FairSpec
CONSTANTS
    p1 = p1
    p2 = p2
    s1 = s1
    s2 = s2
    Paths <- MovieAndSeries
    Movies <- OneMovie
    Sources <- TwoMovieSources
    PathOf <- TwoMoviePathOf
    Callers = {k1}
    Workers = {w1}
    Requests = {q1}
    Chans = {c1, c2}
    NoChan = NoChan
    NoSource = NoSource
    HighCap = 1
    NormalCap = 1
PROPERTIES
    MovieReleased
    SeriesReleased
    ImplementsPromises
CHECK_DEADLOCK FALSE
